---- MODULE Spec2Model ----
(***************************************************************************)
(* A model of minidb, a Bitcask-style key/value store: append-only log     *)
(* files, an in-memory key directory, merge (per-file GC) and replay.      *)
(*                                                                         *)
(* Files are byte sequences.  An entry is encoded as the code encodes it   *)
(* (mark, kLen, vLen big-endian, key, value), offsets are byte offsets,   *)
(* and reads decode the bytes found at an offset.                          *)
(***************************************************************************)
EXTENDS Integers, Sequences, FiniteSets, TLC

\* ------------------------------------------------------------------ bounds

\* opt.LogFileSize, scaled down so that the second entry of a file rolls over.
LogFileSize == 12

\* The highest file id the model lets a rollover create.
MaxFid == 1

\* How many times the model lets a closed directory be opened again.
MaxOpens == 1

\* The threads of the sequential client and of the concurrent clients.
Threads == {1}
ConcThreads == {1, 2}
AllThreads == {1, 2}

KeyA == <<1>>
KeyB == <<2>>
EmptyKey == <<>>
Keys == {KeyA, KeyB}
Values == {<<>>, <<7>>}

\* --------------------------------------------------------------- constants

entryHeaderSize == 9
indexHeaderSize == 12
Normal == 0
Tombstone == 1

\* The offset word of maxPtr: 2^32 in the code, scaled with LogFileSize
\* (LogFileSize <= 2^31 in the code, so the word is twice the largest size).
PtrWord == 64

ErrNil == "nil"
ErrDatabaseClosed == "ErrDatabaseClosed"
ErrEmptyKey == "ErrEmptyKey"
ErrKeyNotFound == "ErrKeyNotFound"
ErrFileNotFound == "ErrFileNotFound"
ErrGcWorking == "ErrGcWorking"
ErrEOF == "io.EOF"
ErrClosedFile == "os.ErrClosed"
ErrExist == "EEXIST"
ErrNotExist == "ENOENT"
ErrHintOffset == "Error offset"
ErrIO == "EIO"
Panic == "panic: nil pointer dereference"

\* ------------------------------------------------------------------- codec

Zeros(n) == [i \in 1..n |-> 0]

\* binary.BigEndian.PutUint32 / Uint32
PutUint32(n) ==
  << (n \div 16777216) % 256, (n \div 65536) % 256, (n \div 256) % 256, n % 256 >>

Uint32(b) == b[1] * 16777216 + b[2] * 65536 + b[3] * 256 + b[4]

NewEntry(key, val, mark) ==
  [mark |-> mark, kLen |-> Len(key), vLen |-> Len(val), key |-> key, value |-> val]

Entry_Size(e) == entryHeaderSize + e.kLen + e.vLen

encodeEntry(e) ==
  <<e.mark>> \o PutUint32(e.kLen) \o PutUint32(e.vLen) \o e.key \o e.value

\* decodeEntry of a buffer of at least entryHeaderSize bytes (the only
\* buffers the code passes).
decodeEntry(buf) ==
  LET kLen == Uint32(SubSeq(buf, 2, 5))
      vLen == Uint32(SubSeq(buf, 6, 9))
  IN  [mark  |-> buf[1], kLen |-> kLen, vLen |-> vLen,
       key   |-> IF Len(buf) > entryHeaderSize
                   THEN SubSeq(buf, entryHeaderSize + 1, entryHeaderSize + kLen)
                   ELSE <<>>,
       value |-> IF Len(buf) > entryHeaderSize
                   THEN SubSeq(buf, entryHeaderSize + kLen + 1, Len(buf))
                   ELSE <<>>]

Index_Size(idx) == indexHeaderSize + idx.kLen

encodeIndex(idx) ==
  PutUint32(idx.fid) \o PutUint32(idx.offset) \o PutUint32(idx.kLen) \o idx.key

decodeIndex(buf) ==
  [fid    |-> Uint32(SubSeq(buf, 1, 4)),
   offset |-> Uint32(SubSeq(buf, 5, 8)),
   kLen   |-> Uint32(SubSeq(buf, 9, 12)),
   key    |-> <<>>]

\* -------------------------------------------------------------- pointers

\* A *logOffset: nil, or a pointer to (fid, offset).
NilPtr == [nil |-> TRUE, fid |-> 0, offset |-> 0]
LogOffset(fid, offset) == [nil |-> FALSE, fid |-> fid, offset |-> offset]

\* ---------------------------------------------------------------- os.File

\* os.File.ReadAt: n bytes at off; io.EOF when fewer than n are there.
ReadAt(data, off, n) ==
  IF off + n > Len(data)
    THEN [err |-> ErrEOF, buf |-> IF off < Len(data) THEN SubSeq(data, off + 1, Len(data)) ELSE <<>>]
    ELSE [err |-> ErrNil, buf |-> SubSeq(data, off + 1, off + n)]

\* os.File.Write at the descriptor's position pos.
WriteAtPos(data, pos, bytes) ==
  LET end == IF pos + Len(bytes) > Len(data) THEN pos + Len(bytes) ELSE Len(data)
  IN  [i \in 1..end |->
         IF i > pos /\ i <= pos + Len(bytes) THEN bytes[i - pos]
         ELSE IF i <= Len(data) THEN data[i] ELSE 0]

\* os.File.Truncate
Truncate(data, n) ==
  IF n <= Len(data) THEN SubSeq(data, 1, n) ELSE data \o Zeros(n - Len(data))

\* Paths of the directory.
logFilePath(fid) == <<"log", fid>>
indexFilePath(fid) == <<"index", fid>>
tempLogPath(fid) == <<"log.tmp", fid>>
tempIndexPath(fid) == <<"index.tmp", fid>>

\* A directory with path p set to data, and with path p removed.
WithFile(d, p, data) == [q \in DOMAIN d \cup {p} |-> IF q = p THEN data ELSE d[q]]
WithoutFile(d, p) == [q \in DOMAIN d \ {p} |-> d[q]]

\* ------------------------------------------------------------------- state

VARIABLES
  disk,        \* the directory: path -> bytes of the file at that path
  dirLocked,   \* the directory lock (flock) is held
  closed,      \* DB.closed
  keyDir,      \* DB.keyDir: key -> *logOffset
  keyDirNil,   \* DB.keyDir is the nil map
  files,       \* dbFile.files: sequence of logFile
  maxPtr,      \* dbFile.maxPtr: maxFid * PtrWord + writableOffset
  gcLock,      \* DB.gcLock is held
  mu,          \* DB.mu: the writer (0: none) and the set of readers
  pc,          \* per thread: the step of its current call
  loc,         \* per thread: the locals of its current call
  res,         \* per thread: what its finished call returned
  panicked,    \* the process died of a runtime panic
  live,        \* history: key -> value of the keys whose latest write is a Put
  lastAppend,  \* history: the thread whose entry was appended last and whose
               \* keyDir update is still to come (0: none)
  opens,       \* history: how many times the directory has been opened again
  merged,      \* history: the directory and keyDir as the last Merge that
               \* returned nil left them, while no write has followed it
  crashedAt,   \* history: the step of runGc at which the process crashed
  test         \* the position of a scripted client in its script

dbVars == <<closed, keyDir, keyDirNil, files, maxPtr, gcLock, mu>>
osVars == <<disk, dirLocked>>
histVars == <<live, lastAppend, opens, merged, crashedAt, test>>
histVarsButMerged == <<live, lastAppend, opens, crashedAt, test>>
vars == <<disk, dirLocked, closed, keyDir, keyDirNil, files, maxPtr,
          gcLock, mu, pc, loc, res, panicked, live, lastAppend, opens,
          merged, crashedAt, test>>

\* A logFile: fid, and its descriptor: open or closed, and the position the
\* next fd.Write lands at.  (logFile.size is read only by the loop of
\* openOrCreateFiles, right after open sets it from stat: it is a local there.)
LogFile(fid, open, pos) == [fid |-> fid, open |-> open, pos |-> pos]

EmptyMap == [k \in {} |-> NilPtr]
MapSet(m, k, v) == [x \in DOMAIN m \cup {k} |-> IF x = k THEN v ELSE m[x]]

MapDelete_keeps(m, k) == m

MapDelete(m, k) == [x \in DOMAIN m \ {k} |-> m[x]]

NoEntry == [mark |-> Normal, kLen |-> 0, vLen |-> 0, key |-> <<>>, value |-> <<>>]

\* --------------------------------------------------------------- logFile

dbFile_maxFid(mp) == mp \div PtrWord
dbFile_writableOffset(mp) == mp % PtrWord

\* logFile.read: the header at offset, then kLen + vLen bytes after it.
logFile_read(d, lf, offset) ==
  IF ~lf.open THEN [err |-> ErrClosedFile, e |-> NoEntry]
  ELSE
    LET data == d[logFilePath(lf.fid)]
        r1 == ReadAt(data, offset, entryHeaderSize)
    IN  IF r1.err # ErrNil THEN [err |-> r1.err, e |-> NoEntry]
        ELSE
          LET h == decodeEntry(r1.buf)
              n == h.kLen + h.vLen
              r2 == ReadAt(data, offset + entryHeaderSize, n)
          IN  IF n > 0
                THEN IF r2.err # ErrNil THEN [err |-> r2.err, e |-> NoEntry]
                     ELSE [err |-> ErrNil,
                           e |-> [h EXCEPT !.key = SubSeq(r2.buf, 1, h.kLen),
                                           !.value = SubSeq(r2.buf, h.kLen + 1, n)]]
                ELSE [err |-> ErrNil, e |-> h]

\* dbFile.getFile: the index in fs of the logFile with this fid (reverse
\* scan), 0 when there is none.
dbFile_getFile(fs, fid) ==
  LET S == {i \in 1..Len(fs) : fs[i].fid = fid}
  IN  IF S = {} THEN 0 ELSE CHOOSE i \in S : \A j \in S : j <= i

\* dbFile.Read of a non-nil logOffset.
dbFile_Read(d, fs, lo) ==
  LET i == dbFile_getFile(fs, lo.fid)
  IN  IF i = 0 THEN [err |-> ErrFileNotFound, e |-> NoEntry]
      ELSE logFile_read(d, fs[i], lo.offset)

\* dbFile.createLogFile: store the pointer, create the file exclusively,
\* pre-truncate it to LogFileSize, sync the directory, append it to files.
dbFile_createLogFile(d, fs, fid) ==
  IF logFilePath(fid) \in DOMAIN d
    THEN [err |-> ErrExist, disk |-> d, files |-> fs, maxPtr |-> fid * PtrWord]
    ELSE [err |-> ErrNil,
          disk |-> WithFile(d, logFilePath(fid), Truncate(<<>>, LogFileSize)),
          files |-> Append(fs, LogFile(fid, TRUE, 0)),
          maxPtr |-> fid * PtrWord]

\* logFile.doneWriting: truncate the file to offset (and fsync it).
logFile_doneWriting(d, lf, offset) ==
  WithFile(d, logFilePath(lf.fid), Truncate(d[logFilePath(lf.fid)], offset))

\* The logOffset dbFile.Write returns: the active file and the writable
\* offset read before the entry's size is added to maxPtr.
dbFile_Write_lo_afterAdd(alf, mp, e) ==
  LogOffset(alf.fid, dbFile_writableOffset(mp) + Entry_Size(e))

dbFile_Write_lo(alf, mp, e) == LogOffset(alf.fid, dbFile_writableOffset(mp))

\* The rollover test of dbFile.Write, on the writable offset after the add.
dbFile_Write_rolls_never(offset) == FALSE

dbFile_Write_rolls(offset) == offset > LogFileSize

\* dbFile.Write: append the entry to the active file at its descriptor's
\* position, return the offset before the add, add the size to maxPtr, and
\* roll over when the writable offset has passed LogFileSize.
dbFile_Write(d, fs, mp, e) ==
  LET alf == fs[Len(fs)]
      d1 == WithFile(d, logFilePath(alf.fid),
                     WriteAtPos(d[logFilePath(alf.fid)], alf.pos, encodeEntry(e)))
      fs1 == [fs EXCEPT ![Len(fs)].pos = alf.pos + Entry_Size(e)]
      lo == dbFile_Write_lo(alf, mp, e)
      mp1 == (mp + Entry_Size(e)) % (PtrWord * PtrWord)
      d2 == logFile_doneWriting(d1, alf, dbFile_writableOffset(mp1))
      c == dbFile_createLogFile(d2, fs1, dbFile_maxFid(mp1) + 1)
  IN  IF Len(fs) = 0
        THEN [err |-> "Unable to find the active log file", lo |-> NilPtr,
              disk |-> d, files |-> fs, maxPtr |-> mp, rolled |-> FALSE]
      ELSE IF ~alf.open
        THEN [err |-> ErrClosedFile, lo |-> NilPtr,
              disk |-> d, files |-> fs, maxPtr |-> mp, rolled |-> FALSE]
      ELSE IF dbFile_Write_rolls(dbFile_writableOffset(mp1))
        THEN [err |-> c.err, lo |-> lo,
              disk |-> c.disk, files |-> c.files, maxPtr |-> c.maxPtr, rolled |-> TRUE]
      ELSE [err |-> ErrNil, lo |-> lo,
            disk |-> d1, files |-> fs1, maxPtr |-> mp1, rolled |-> FALSE]

\* The model stops a client before a write that would create a file beyond
\* fid cap (MaxFid in the specifications of the general clients).
WriteFitsUpTo(cap, e) ==
  \/ dbFile_maxFid(maxPtr) < cap
  \/ dbFile_writableOffset(maxPtr) + Entry_Size(e) <= LogFileSize

WriteFits(e) == WriteFitsUpTo(MaxFid, e)

\* The calls the clients make: a Put, and a Delete, whose entry (when the
\* call gets to write one) fits.
PutFitsUpTo(cap, key, val) ==
  (~closed /\ Len(key) > 0) => WriteFitsUpTo(cap, NewEntry(key, val, Normal))
DeleteFitsUpTo(cap, key) ==
  (~closed /\ Len(key) > 0 /\ key \in DOMAIN keyDir)
    => WriteFitsUpTo(cap, NewEntry(key, <<>>, Tombstone))
PutFits(key, val) == PutFitsUpTo(MaxFid, key, val)
DeleteFits(key) == DeleteFitsUpTo(MaxFid, key)

\* ------------------------------------------------------------ locks, calls

\* sync.RWMutex: Lock waits for no writer and no reader, RLock for no writer.
RWMutex_CanLock_noWait(m) == TRUE

RWMutex_CanLock(m) == m.writer = 0 /\ m.readers = {}

RWMutex_CanRLock_noWait(m) == TRUE

RWMutex_CanRLock(m) == m.writer = 0
RWMutex_Free == [writer |-> 0, readers |-> {}]

\* sync.Mutex.TryLock succeeds when the mutex is not held.
Mutex_TryLock_always(held) == TRUE

Mutex_TryLock(held) == ~held

\* DB.isClosed
DB_isClosed_never == FALSE

DB_isClosed == closed

\* len(key) == 0, the test of Put, Get and Delete
KeyIsEmpty_never(key) == FALSE

KeyIsEmpty(key) == Len(key) = 0

NoExpect == [err |-> "", value |-> <<>>]
\* (oldData and oldKeyDir are history: the bytes of the file and keyDir when
\* runGc began.)
NoLoc == [key |-> <<>>, val |-> <<>>, lo |-> NilPtr, expect |-> NoExpect,
          oldFiles |-> <<>>, i |-> 0, offset |-> 0, writableOffset |-> 0,
          newKeyDir |-> EmptyMap, hfSize |-> 0,
          oldData |-> <<>>, oldKeyDir |-> EmptyMap]
NoRes == [op |-> "", key |-> <<>>, err |-> ErrNil, value |-> <<>>, expect |-> NoExpect]

\* No Merge has returned nil since the last write; and the directory d and
\* keyDir kd a Merge that returned nil has left: the first one since the
\* last write (n = 1) or a later one (n = 2).
NoMerged == [disk |-> EmptyMap, keyDir |-> EmptyMap, n |-> 0]
MergedAs(d, kd) == [disk |-> d, keyDir |-> kd, n |-> IF merged.n = 0 THEN 1 ELSE 2]

\* No crash, and no script.
NoCrash == [pc |-> "", fid |-> 0]
NoTest == [n |-> 0, m |-> 0, val |-> <<>>, mix |-> FALSE, k |-> 0, pre |-> 0, dead |-> 0]

\* Thread t's call returns: its result is recorded and its locals dropped.
Done(t, op, key, err, value, expect) ==
  /\ pc' = [pc EXCEPT ![t] = "done"]
  /\ res' = [res EXCEPT ![t] = [op |-> op, key |-> key, err |-> err,
                                value |-> value, expect |-> expect]]
  /\ loc' = [loc EXCEPT ![t] = NoLoc]

\* Thread t moves to step s of its call with locals l.
Goto(t, s, l) ==
  /\ pc' = [pc EXCEPT ![t] = s]
  /\ loc' = [loc EXCEPT ![t] = l]
  /\ UNCHANGED res

\* What the history says Get(key) returns.
ExpectedGet(key) ==
  IF key \in DOMAIN live THEN [err |-> ErrNil, value |-> live[key]]
  ELSE [err |-> ErrKeyNotFound, value |-> <<>>]

\* --------------------------------------------------------------------- Put

\* DB.Put up to and including db.mu.Lock(): the closed check, the empty-key
\* check, the lock.  (The checks read only db.closed and the argument, so
\* taking them at the moment the lock is granted loses no interleaving.)
DB_Put(t, key, val) ==
  /\ pc[t] = "idle" /\ ~panicked
  /\ IF DB_isClosed
       THEN Done(t, "Put", key, ErrDatabaseClosed, <<>>, NoExpect) /\ UNCHANGED mu
     ELSE IF KeyIsEmpty(key)
       THEN Done(t, "Put", key, ErrEmptyKey, <<>>, NoExpect) /\ UNCHANGED mu
     ELSE /\ RWMutex_CanLock(mu)
          /\ mu' = [mu EXCEPT !.writer = t]
          /\ Goto(t, "put_write", [NoLoc EXCEPT !.key = key, !.val = val])
  /\ UNCHANGED <<osVars, closed, keyDir, keyDirNil, files, maxPtr, gcLock, panicked, histVars>>

\* lo, err := db.dbFile.Write(e); an error returns (and unlocks).
Put_Write(t) ==
  /\ pc[t] = "put_write" /\ ~panicked
  /\ LET r == dbFile_Write(disk, files, maxPtr, NewEntry(loc[t].key, loc[t].val, Normal))
     IN  /\ disk' = r.disk
         /\ files' = r.files
         /\ maxPtr' = r.maxPtr
         /\ IF r.err # ErrNil
              THEN /\ Done(t, "Put", loc[t].key, r.err, <<>>, NoExpect)
                   /\ mu' = [mu EXCEPT !.writer = 0]
                   /\ UNCHANGED lastAppend
              ELSE /\ Goto(t, "put_index", [loc[t] EXCEPT !.lo = r.lo])
                   /\ lastAppend' = t
                   /\ UNCHANGED mu
  /\ merged' = NoMerged
  /\ UNCHANGED <<dirLocked, closed, keyDir, keyDirNil, gcLock, panicked, live, opens,
                 crashedAt, test>>

\* db.keyDir[string(key)] = lo (a panic on the nil map), then the deferred
\* Unlock and the return.
Put_Index(t) ==
  /\ pc[t] = "put_index" /\ ~panicked
  /\ IF keyDirNil
       THEN /\ panicked' = TRUE
            /\ Done(t, "Put", loc[t].key, Panic, <<>>, NoExpect)
            /\ UNCHANGED <<keyDir, live>>
       ELSE /\ keyDir' = MapSet(keyDir, loc[t].key, loc[t].lo)
            /\ live' = [k \in DOMAIN live \cup {loc[t].key} |->
                          IF k = loc[t].key THEN loc[t].val ELSE live[k]]
            /\ Done(t, "Put", loc[t].key, ErrNil, <<>>, NoExpect)
            /\ UNCHANGED panicked
  /\ mu' = [mu EXCEPT !.writer = 0]
  /\ lastAppend' = 0
  /\ UNCHANGED <<osVars, closed, keyDirNil, files, maxPtr, gcLock, opens,
                 merged, crashedAt, test>>

\* --------------------------------------------------------------------- Get

\* The lookup and the read of DB.Get, under the read lock.
DB_Get_read(kd, d, fs, key) ==
  IF key \notin DOMAIN kd THEN [err |-> ErrKeyNotFound, value |-> <<>>]
  ELSE IF kd[key].nil THEN [err |-> Panic, value |-> <<>>]
  ELSE LET r == dbFile_Read(d, fs, kd[key])
       IN  IF r.err # ErrNil THEN [err |-> r.err, value |-> <<>>]
           ELSE [err |-> ErrNil, value |-> r.e.value]

\* DB.Get up to and including db.mu.RLock(); the history's answer at the
\* moment the read lock is granted is noted.
DB_Get(t, key) ==
  /\ pc[t] = "idle" /\ ~panicked
  /\ IF DB_isClosed
       THEN Done(t, "Get", key, ErrDatabaseClosed, <<>>, NoExpect) /\ UNCHANGED mu
     ELSE IF KeyIsEmpty(key)
       THEN Done(t, "Get", key, ErrEmptyKey, <<>>, NoExpect) /\ UNCHANGED mu
     ELSE /\ RWMutex_CanRLock(mu)
          /\ mu' = [mu EXCEPT !.readers = @ \cup {t}]
          /\ Goto(t, "get_read", [NoLoc EXCEPT !.key = key, !.expect = ExpectedGet(key)])
  /\ UNCHANGED <<osVars, closed, keyDir, keyDirNil, files, maxPtr, gcLock, panicked, histVars>>

\* The lookup, the read, the deferred RUnlock and the return.
Get_Read(t) ==
  /\ pc[t] = "get_read" /\ ~panicked
  /\ LET r == DB_Get_read(keyDir, disk, files, loc[t].key)
     IN  /\ Done(t, "Get", loc[t].key, r.err, r.value, loc[t].expect)
         /\ panicked' = (r.err = Panic)
  /\ mu' = [mu EXCEPT !.readers = @ \ {t}]
  /\ UNCHANGED <<osVars, closed, keyDir, keyDirNil, files, maxPtr, gcLock, histVars>>

\* ------------------------------------------------------------------ Delete

\* DB.Delete up to and including db.mu.Lock().
DB_Delete(t, key) ==
  /\ pc[t] = "idle" /\ ~panicked
  /\ IF DB_isClosed
       THEN Done(t, "Delete", key, ErrDatabaseClosed, <<>>, NoExpect) /\ UNCHANGED mu
     ELSE IF KeyIsEmpty(key)
       THEN Done(t, "Delete", key, ErrEmptyKey, <<>>, NoExpect) /\ UNCHANGED mu
     ELSE /\ RWMutex_CanLock(mu)
          /\ mu' = [mu EXCEPT !.writer = t]
          /\ Goto(t, "delete_write", [NoLoc EXCEPT !.key = key])
  /\ UNCHANGED <<osVars, closed, keyDir, keyDirNil, files, maxPtr, gcLock, panicked, histVars>>

\* The search of DB.Delete: _, ok := db.keyDir[string(key)].
DB_Delete_found_always(kd, key) == TRUE

DB_Delete_found(kd, key) == key \in DOMAIN kd

\* The search for the key (absent: return), then dbFile.Write of a tombstone.
Delete_Write(t) ==
  /\ pc[t] = "delete_write" /\ ~panicked
  /\ IF ~DB_Delete_found(keyDir, loc[t].key)
       THEN /\ Done(t, "Delete", loc[t].key, ErrNil, <<>>, NoExpect)
            /\ mu' = [mu EXCEPT !.writer = 0]
            /\ UNCHANGED <<osVars, files, maxPtr, lastAppend, merged>>
       ELSE LET r == dbFile_Write(disk, files, maxPtr, NewEntry(loc[t].key, <<>>, Tombstone))
            IN  /\ disk' = r.disk
                /\ files' = r.files
                /\ maxPtr' = r.maxPtr
                /\ merged' = NoMerged
                /\ UNCHANGED dirLocked
                /\ IF r.err # ErrNil
                     THEN /\ Done(t, "Delete", loc[t].key, r.err, <<>>, NoExpect)
                          /\ mu' = [mu EXCEPT !.writer = 0]
                          /\ UNCHANGED lastAppend
                     ELSE /\ Goto(t, "delete_index", loc[t])
                          /\ lastAppend' = t
                          /\ UNCHANGED mu
  /\ UNCHANGED <<closed, keyDir, keyDirNil, gcLock, panicked, live, opens,
                 crashedAt, test>>

\* delete(db.keyDir, string(key)), then the deferred Unlock and the return.
Delete_Index(t) ==
  /\ pc[t] = "delete_index" /\ ~panicked
  /\ keyDir' = MapDelete(keyDir, loc[t].key)
  /\ live' = [k \in DOMAIN live \ {loc[t].key} |-> live[k]]
  /\ Done(t, "Delete", loc[t].key, ErrNil, <<>>, NoExpect)
  /\ mu' = [mu EXCEPT !.writer = 0]
  /\ lastAppend' = 0
  /\ UNCHANGED <<osVars, closed, keyDirNil, files, maxPtr, gcLock, panicked, opens,
                 merged, crashedAt, test>>

\* The caller takes the result of its finished call.
Return(t) ==
  /\ pc[t] = "done" /\ ~panicked
  /\ pc' = [pc EXCEPT ![t] = "idle"]
  /\ res' = [res EXCEPT ![t] = NoRes]
  /\ UNCHANGED <<osVars, dbVars, loc, panicked, histVars>>

\* ------------------------------------------------------------------- Merge

\* The test of compareAndRewrite on a non-nil binding: the key is bound to
\* exactly (fid, offset).
compareAndRewrite_match_anyOffset(lo, fid, offset) == lo.fid = fid

compareAndRewrite_match(lo, fid, offset) == lo.fid = fid /\ lo.offset = offset

\* DB.updateKeyDir: a key of m is rebound only when it is still bound to the
\* file m's offset names.
DB_updateKeyDir_noGuard(kd, m) ==
  [k \in DOMAIN kd |-> IF k \in DOMAIN m THEN m[k] ELSE kd[k]]

DB_updateKeyDir_skip(kd, m) == kd

DB_updateKeyDir(kd, m) ==
  [k \in DOMAIN kd |->
     IF k \in DOMAIN m /\ kd[k].fid = m[k].fid THEN m[k] ELSE kd[k]]

\* updateKeyDir dereferences the current binding of every key of m it finds.
DB_updateKeyDir_panics(kd, m) == \E k \in DOMAIN m \cap DOMAIN kd : kd[k].nil

\* dbFile.merge returns err: the deferred gcLock.Unlock and the return.
\* (d and kd are the directory and keyDir the call leaves.)
Merge_Return(t, err, d, kd) ==
  /\ gcLock' = FALSE
  /\ Done(t, "Merge", <<>>, err, <<>>, NoExpect)
  /\ merged' = IF err = ErrNil THEN MergedAs(d, kd) ELSE NoMerged

\* dbFile.merge's list of the files to rewrite: df.files but its last.
dbFile_merge_files_all(fs) == [i \in 1..Len(fs) |-> fs[i].fid]

dbFile_merge_files(fs) == [i \in 1..(Len(fs) - 1) |-> fs[i].fid]

\* DB.Merge: TryLock, then dbFile.merge up to its first runGc: with fewer
\* than two files there is nothing to do, else the files but the last are
\* the ones to rewrite.
DB_Merge(t) ==
  /\ pc[t] = "idle" /\ ~panicked
  /\ IF ~Mutex_TryLock(gcLock)
       THEN /\ Done(t, "Merge", <<>>, ErrGcWorking, <<>>, NoExpect)
            /\ UNCHANGED <<gcLock, merged>>
     ELSE IF Len(files) < 2
       THEN Merge_Return(t, ErrNil, disk, keyDir)
     ELSE /\ gcLock' = TRUE
          /\ UNCHANGED merged
          /\ Goto(t, "gc_create",
                  [NoLoc EXCEPT !.oldFiles = dbFile_merge_files(files),
                                !.i = 1])
  /\ UNCHANGED <<osVars, closed, keyDir, keyDirNil, files, maxPtr, mu, panicked, histVarsButMerged>>

\* The fid of the file thread t's runGc is rewriting.
GcFid(t) == loc[t].oldFiles[loc[t].i]

\* runGc, steps 1 to 3: create the temporary log and hint files exclusively,
\* sync the directory.
Gc_Create(t) ==
  /\ pc[t] = "gc_create" /\ ~panicked
  /\ IF tempLogPath(GcFid(t)) \in DOMAIN disk
       THEN /\ Merge_Return(t, ErrExist, disk, keyDir)
            /\ UNCHANGED disk
     ELSE IF tempIndexPath(GcFid(t)) \in DOMAIN disk
       THEN /\ Merge_Return(t, ErrExist, disk, keyDir)
            /\ disk' = WithFile(disk, tempLogPath(GcFid(t)), <<>>)
     ELSE /\ disk' = WithFile(WithFile(disk, tempLogPath(GcFid(t)), <<>>),
                              tempIndexPath(GcFid(t)), <<>>)
          /\ Goto(t, "gc_scan", [loc[t] EXCEPT !.offset = 0, !.writableOffset = 0,
                                               !.newKeyDir = EmptyMap, !.hfSize = 0,
                                               !.oldData = disk[logFilePath(GcFid(t))],
                                               !.oldKeyDir = keyDir])
          /\ UNCHANGED <<gcLock, merged>>
  /\ UNCHANGED <<dirLocked, closed, keyDir, keyDirNil, files, maxPtr, mu, panicked, histVarsButMerged>>

\* runGc, one turn of the scan loop: read the entry at offset from the
\* original file; at EOF close the temporary files (steps 6, 7); skip a
\* tombstone; else compareAndRewrite under the read lock, and for a copied
\* entry the hint record and the cached new offset.
Gc_Scan(t) ==
  /\ pc[t] = "gc_scan" /\ ~panicked
  /\ LET F == GcFid(t)
         lf == files[dbFile_getFile(files, F)]
         r == logFile_read(disk, lf, loc[t].offset)
         e == r.e
         bound == e.key \in DOMAIN keyDir
         idx == [fid |-> F, offset |-> loc[t].writableOffset, kLen |-> e.kLen, key |-> e.key]
     IN  IF r.err = ErrEOF
           THEN /\ disk' = WithFile(
                      WithFile(disk, tempLogPath(F),
                               Truncate(disk[tempLogPath(F)], loc[t].writableOffset)),
                      tempIndexPath(F), Truncate(disk[tempIndexPath(F)], loc[t].hfSize))
                /\ Goto(t, "gc_lock", loc[t])
                /\ UNCHANGED <<gcLock, merged, panicked>>
         ELSE IF r.err # ErrNil
           THEN /\ Merge_Return(t, r.err, disk, keyDir)
                /\ UNCHANGED <<disk, panicked>>
         ELSE IF e.mark = Tombstone
           THEN /\ Goto(t, "gc_scan", [loc[t] EXCEPT !.offset = @ + Entry_Size(e)])
                /\ UNCHANGED <<disk, gcLock, merged, panicked>>
         ELSE /\ RWMutex_CanRLock(mu)
              /\ IF bound /\ keyDir[e.key].nil
                   THEN /\ panicked' = TRUE
                        /\ Done(t, "Merge", <<>>, Panic, <<>>, NoExpect)
                        /\ UNCHANGED <<disk, gcLock, merged>>
                 ELSE IF bound /\ compareAndRewrite_match(keyDir[e.key], F, loc[t].offset)
                   THEN /\ disk' = WithFile(
                              WithFile(disk, tempLogPath(F),
                                       disk[tempLogPath(F)] \o encodeEntry(e)),
                              tempIndexPath(F), disk[tempIndexPath(F)] \o encodeIndex(idx))
                        /\ Goto(t, "gc_scan",
                                [loc[t] EXCEPT
                                   !.newKeyDir = MapSet(@, e.key, LogOffset(F, loc[t].writableOffset)),
                                   !.hfSize = @ + Index_Size(idx),
                                   !.writableOffset = @ + Entry_Size(e),
                                   !.offset = @ + Entry_Size(e)])
                        /\ UNCHANGED <<gcLock, merged, panicked>>
                 ELSE /\ Goto(t, "gc_scan", [loc[t] EXCEPT !.offset = @ + Entry_Size(e)])
                      /\ UNCHANGED <<disk, gcLock, merged, panicked>>
  /\ UNCHANGED <<dirLocked, closed, keyDir, keyDirNil, files, maxPtr, mu, histVarsButMerged>>

\* runGc, step 8: db.mu.Lock()
Gc_Lock(t) ==
  /\ pc[t] = "gc_lock" /\ ~panicked
  /\ RWMutex_CanLock(mu)
  /\ mu' = [mu EXCEPT !.writer = t]
  /\ Goto(t, "gc_delete", loc[t])
  /\ UNCHANGED <<osVars, closed, keyDir, keyDirNil, files, maxPtr, gcLock, panicked, histVars>>

\* step 8a, lf.delete(): truncate to 0, close the descriptor, unlink.
Gc_Delete(t) ==
  /\ pc[t] = "gc_delete" /\ ~panicked
  /\ LET i == dbFile_getFile(files, GcFid(t))
     IN  IF ~files[i].open
           THEN /\ Merge_Return(t, ErrClosedFile, disk, keyDir)
                /\ mu' = [mu EXCEPT !.writer = 0]
                /\ UNCHANGED <<disk, files>>
           ELSE /\ disk' = WithoutFile(disk, logFilePath(GcFid(t)))
                    /\ files' = [files EXCEPT ![i].open = FALSE]
                /\ Goto(t, "gc_rename", loc[t])
                /\ UNCHANGED <<gcLock, merged, mu>>
  /\ UNCHANGED <<dirLocked, closed, keyDir, keyDirNil, maxPtr, panicked, histVarsButMerged>>

\* step 8b: os.Rename(tempLogPath, lf.path)
Gc_Rename(t) ==
  /\ pc[t] = "gc_rename" /\ ~panicked
  /\ disk' = WithoutFile(WithFile(disk, logFilePath(GcFid(t)), disk[tempLogPath(GcFid(t))]),
                         tempLogPath(GcFid(t)))
  /\ Goto(t, "gc_reopen", loc[t])
  /\ UNCHANGED <<dirLocked, dbVars, panicked, histVars>>

\* step 8c: lf.openReadWrite()
Gc_Reopen(t) ==
  /\ pc[t] = "gc_reopen" /\ ~panicked
  /\ LET i == dbFile_getFile(files, GcFid(t))
     IN  files' = [files EXCEPT ![i] = LogFile(GcFid(t), TRUE, 0)]
  /\ Goto(t, "gc_update", loc[t])
  /\ UNCHANGED <<osVars, closed, keyDir, keyDirNil, maxPtr, gcLock, mu, panicked, histVars>>

\* step 8d: db.updateKeyDir(newKeyDir)
Gc_UpdateKeyDir(t) ==
  /\ pc[t] = "gc_update" /\ ~panicked
  /\ IF DB_updateKeyDir_panics(keyDir, loc[t].newKeyDir)
       THEN /\ panicked' = TRUE
            /\ Done(t, "Merge", <<>>, Panic, <<>>, NoExpect)
            /\ UNCHANGED keyDir
       ELSE /\ keyDir' = DB_updateKeyDir(keyDir, loc[t].newKeyDir)
            /\ Goto(t, "gc_hint", loc[t])
            /\ UNCHANGED panicked
  /\ UNCHANGED <<osVars, closed, keyDirNil, files, maxPtr, gcLock, mu, histVars>>

\* step 8e: os.Rename(tempIndexPath, idxFilePath), the deferred Unlock, and
\* dbFile.merge's next file or its return.
Gc_RenameHint(t) ==
  /\ pc[t] = "gc_hint" /\ ~panicked
  /\ LET d == WithoutFile(WithFile(disk, indexFilePath(GcFid(t)),
                                    disk[tempIndexPath(GcFid(t))]),
                           tempIndexPath(GcFid(t)))
     IN  /\ disk' = d
         /\ IF loc[t].i < Len(loc[t].oldFiles)
              THEN /\ Goto(t, "gc_create", [loc[t] EXCEPT !.i = @ + 1])
                   /\ UNCHANGED <<gcLock, merged>>
              ELSE Merge_Return(t, ErrNil, d, keyDir)
  /\ mu' = [mu EXCEPT !.writer = 0]
  /\ UNCHANGED <<dirLocked, closed, keyDir, keyDirNil, files, maxPtr, panicked, histVarsButMerged>>

\* runGc returns the error of a file-system call that fails: a create of a
\* temporary file (the second one leaves the first behind), a read or write
\* of the scan or the close of a temporary file, a call of lf.delete()
\* (Truncate(0) itself, or the Close or Remove after it), the rename of the
\* temporary log, the reopen of the file, the rename of the temporary hint.
\* From db.mu.Lock() on, the deferred Unlock runs.
Gc_Fail(t) ==
  /\ ~panicked
  /\ pc[t] \in {"gc_create", "gc_scan", "gc_delete", "gc_rename", "gc_reopen", "gc_hint"}
  /\ LET F == GcFid(t)
         i == dbFile_getFile(files, F)
     IN  \E d \in (CASE pc[t] = "gc_create" -> {disk, WithFile(disk, tempLogPath(F), <<>>)}
                     [] pc[t] = "gc_delete" ->
                          IF files[i].open
                            THEN {disk, WithFile(disk, logFilePath(F), <<>>)}
                            ELSE {disk}
                     [] OTHER -> {disk}) :
           /\ disk' = d
           /\ files' = IF pc[t] = "gc_delete" /\ d # disk
                         THEN [files EXCEPT ![i].open = FALSE]
                         ELSE files
           /\ Merge_Return(t, ErrIO, d, keyDir)
  /\ mu' = IF pc[t] \in {"gc_delete", "gc_rename", "gc_reopen", "gc_hint"}
             THEN [mu EXCEPT !.writer = 0]
             ELSE mu
  /\ UNCHANGED <<dirLocked, closed, keyDir, keyDirNil, maxPtr, panicked, histVarsButMerged>>

\* dbFile.Write when the rollover fails with an I/O error, after the entry
\* is written and its size added to maxPtr: in doneWriting (seal TRUE:
\* nothing more is done), or in createLogFile's OpenFile, after the store
\* of (maxFid + 1) << 32 into maxPtr (seal FALSE).
dbFile_Write_rollFails(d, fs, mp, e, seal) ==
  LET alf == fs[Len(fs)]
      d1 == WithFile(d, logFilePath(alf.fid),
                     WriteAtPos(d[logFilePath(alf.fid)], alf.pos, encodeEntry(e)))
      fs1 == [fs EXCEPT ![Len(fs)].pos = alf.pos + Entry_Size(e)]
      mp1 == (mp + Entry_Size(e)) % (PtrWord * PtrWord)
      d2 == logFile_doneWriting(d1, alf, dbFile_writableOffset(mp1))
  IN  IF seal
        THEN [err |-> ErrIO, disk |-> d1, files |-> fs1, maxPtr |-> mp1]
        ELSE [err |-> ErrIO, disk |-> d2, files |-> fs1,
              maxPtr |-> (dbFile_maxFid(mp1) + 1) * PtrWord]

\* Put or Delete of thread t at its dbFile.Write, the rollover failing: the
\* call returns the error (and unlocks) without touching keyDir.
Write_RollFail(t) ==
  /\ ~panicked
  /\ pc[t] \in {"put_write", "delete_write"}
  /\ pc[t] = "delete_write" => DB_Delete_found(keyDir, loc[t].key)
  /\ LET e == IF pc[t] = "put_write" THEN NewEntry(loc[t].key, loc[t].val, Normal)
              ELSE NewEntry(loc[t].key, <<>>, Tombstone)
     IN  /\ dbFile_Write(disk, files, maxPtr, e).rolled
         /\ \E seal \in BOOLEAN :
              LET r == dbFile_Write_rollFails(disk, files, maxPtr, e, seal)
              IN  /\ disk' = r.disk
                  /\ files' = r.files
                  /\ maxPtr' = r.maxPtr
                  /\ Done(t, IF pc[t] = "put_write" THEN "Put" ELSE "Delete",
                          loc[t].key, r.err, <<>>, NoExpect)
  /\ mu' = [mu EXCEPT !.writer = 0]
  /\ merged' = NoMerged
  /\ UNCHANGED <<dirLocked, closed, keyDir, keyDirNil, gcLock, panicked, live, lastAppend,
                 opens, crashedAt, test>>

\* ------------------------------------------------------------------- Close

\* DB.Close up to dbFile.Close: an already closed DB returns nil at once.
DB_Close(t) ==
  /\ pc[t] = "idle" /\ ~panicked
  /\ IF DB_isClosed THEN Done(t, "Close", <<>>, ErrNil, <<>>, NoExpect)
     ELSE Goto(t, "close_files", NoLoc)
  /\ UNCHANGED <<osVars, dbVars, panicked, histVars>>

\* dbFile.Close: fdatasync and close the descriptor of every file.
dbFile_Close(fs) == [i \in 1..Len(fs) |-> [fs[i] EXCEPT !.open = FALSE]]

Close_Files(t) ==
  /\ pc[t] = "close_files" /\ ~panicked
  /\ files' = dbFile_Close(files)
  /\ merged' = NoMerged
  /\ Goto(t, "close_release", loc[t])
  /\ UNCHANGED <<osVars, closed, keyDir, keyDirNil, maxPtr, gcLock, mu, panicked,
                 histVarsButMerged>>

\* db.dirLockGuard.release(), then syncDir(db.opt.Dir)
Close_Release(t) ==
  /\ pc[t] = "close_release" /\ ~panicked
  /\ dirLocked' = FALSE
  /\ Goto(t, "close_mark", loc[t])
  /\ UNCHANGED <<disk, dbVars, panicked, histVars>>

\* db.closed.CompareAndSwap(false, true); db.keyDir = nil; return.
Close_Mark(t) ==
  /\ pc[t] = "close_mark" /\ ~panicked
  /\ closed' = TRUE
  /\ keyDir' = EmptyMap
  /\ keyDirNil' = TRUE
  /\ Done(t, "Close", <<>>, ErrNil, <<>>, NoExpect)
  /\ UNCHANGED <<osVars, files, maxPtr, gcLock, mu, panicked, histVars>>

\* -------------------------------------------------------------------- Open

\* os.Stat's error for path p, and os.IsExist of an error: true of the
\* "already exists" errors only, which Stat never returns.
osStat(d, p) == IF p \in DOMAIN d THEN ErrNil ELSE ErrNotExist
osIsExist(err) == err = ErrExist

\* The callback Open hands to Replay: db.keyDir[string(key)] = lo, for a
\* tombstone's nil too.
Open_replayFn(kd, key, lo) == MapSet(kd, key, lo)

\* logFile.iterate from offset: a tombstone calls fn(key, nil), a Normal
\* entry with kLen = 0 ends the data, another entry calls fn(key, lo).
RECURSIVE logFile_iterate(_, _, _, _)
logFile_iterate(d, lf, offset, kd) ==
  LET r == logFile_read(d, lf, offset)
  IN  IF r.err = ErrEOF THEN [err |-> ErrNil, endAt |-> offset, keyDir |-> kd]
      ELSE IF r.err # ErrNil THEN [err |-> r.err, endAt |-> 0, keyDir |-> kd]
      ELSE IF r.e.mark = Tombstone
        THEN logFile_iterate(d, lf, offset + Entry_Size(r.e),
                             Open_replayFn(kd, r.e.key, NilPtr))
      ELSE IF r.e.kLen = 0 THEN [err |-> ErrNil, endAt |-> offset, keyDir |-> kd]
      ELSE logFile_iterate(d, lf, offset + Entry_Size(r.e),
                           Open_replayFn(kd, r.e.key, LogOffset(lf.fid, offset)))

\* hintFile.openReadOnly: os.OpenFile with O_CREATE|O_EXCL.
hintFile_openOrCreate(d, p) == IF p \in DOMAIN d THEN ErrExist ELSE ErrNil

\* os.File.Read into buf at position pos: the bytes there are, over the
\* front of buf; io.EOF when there is none and buf is not empty.
FileRead(data, pos, buf) ==
  LET n == IF Len(data) - pos < Len(buf)
             THEN (IF Len(data) > pos THEN Len(data) - pos ELSE 0)
             ELSE Len(buf)
  IN  [err |-> IF n = 0 /\ Len(buf) > 0 THEN ErrEOF ELSE ErrNil,
       n |-> n,
       buf |-> [i \in 1..Len(buf) |-> IF i <= n THEN data[pos + i] ELSE buf[i]]]

\* The offset test of hintFile.iterate, made after the callback.
hintFile_iterate_badOffset(offset, lastOffset) == offset <= lastOffset

\* hintFile.iterate over the bytes of the hint file, from position pos with
\* the header buffer buf: read a header (EOF ends the loop), decode it, read
\* the key (EOF ends the loop), call fn(key, &logOffset{fid, offset}), then
\* fail when the offset is not above lastOffset.  calls is the sequence of
\* the callback's arguments.
RECURSIVE hintFile_iterate(_, _, _, _, _, _)

\* The loop after the read r2 of the key, at position pos.
hintFile_iterate_called(data, pos, buf, idx, r2, lastOffset, kd, calls) ==
  IF r2.err = ErrEOF
    THEN [err |-> ErrNil, endAt |-> lastOffset, keyDir |-> kd, calls |-> calls]
  ELSE IF hintFile_iterate_badOffset(idx.offset, lastOffset)
    THEN [err |-> ErrHintOffset, endAt |-> 0,
          keyDir |-> Open_replayFn(kd, r2.buf, LogOffset(idx.fid, idx.offset)),
          calls |-> Append(calls, [key |-> r2.buf, lo |-> LogOffset(idx.fid, idx.offset)])]
  ELSE hintFile_iterate(data, pos + r2.n, buf, idx.offset,
                        Open_replayFn(kd, r2.buf, LogOffset(idx.fid, idx.offset)),
                        Append(calls, [key |-> r2.buf, lo |-> LogOffset(idx.fid, idx.offset)]))

\* The loop after the read r1 of the header, at position pos.
hintFile_iterate_decoded(data, pos, r1, lastOffset, kd, calls) ==
  IF r1.err = ErrEOF
    THEN [err |-> ErrNil, endAt |-> lastOffset, keyDir |-> kd, calls |-> calls]
    ELSE hintFile_iterate_called(data, pos + r1.n, r1.buf, decodeIndex(r1.buf),
                                 FileRead(data, pos + r1.n, Zeros(decodeIndex(r1.buf).kLen)),
                                 lastOffset, kd, calls)

hintFile_iterate(data, pos, buf, lastOffset, kd, calls) ==
  hintFile_iterate_decoded(data, pos, FileRead(data, pos, buf), lastOffset, kd, calls)

\* The choice of dbFile.iterate: the hint file when this is not the active
\* file and os.IsExist(err) holds of Stat's error.
dbFile_iterate_usesHint(d, lf, mp) ==
  lf.fid # dbFile_maxFid(mp) /\ osIsExist(osStat(d, indexFilePath(lf.fid)))

\* The result r of an iteration, with the kind of file it went through.
dbFile_iterate_result(r, hinted) ==
  [err |-> r.err, endAt |-> r.endAt, keyDir |-> r.keyDir, hinted |-> hinted]

\* dbFile.iterate through the hint file at path p: opened, which creates it
\* exclusively, then iterated.
dbFile_iterate_hint(err, kd) ==
  IF err # ErrNil THEN [err |-> err, endAt |-> 0, keyDir |-> kd, hinted |-> TRUE]
  ELSE dbFile_iterate_result(
         hintFile_iterate(<<>>, 0, Zeros(indexHeaderSize), 0, kd, <<>>), TRUE)

\* dbFile.iterate: the hint file or the log file.
dbFile_iterate(d, lf, mp, kd) ==
  IF dbFile_iterate_usesHint(d, lf, mp)
    THEN dbFile_iterate_hint(hintFile_openOrCreate(d, indexFilePath(lf.fid)), kd)
    ELSE dbFile_iterate_result(logFile_iterate(d, lf, 0, kd), FALSE)

\* The end offset dbFile.Replay keeps after iterating file fid.
dbFile_Replay_lastOffset_kept(fid, maxFid, endAt, lastOffset) == lastOffset

dbFile_Replay_lastOffset(fid, maxFid, endAt, lastOffset) ==
  IF fid = maxFid THEN endAt ELSE lastOffset

\* dbFile.Replay from file i on: iterate each file, keep the end offset of
\* the file whose fid is maxFid.
RECURSIVE dbFile_Replay(_, _, _, _, _, _)
dbFile_Replay(d, fs, mp, i, kd, lastOffset) ==
  IF i > Len(fs) THEN [err |-> ErrNil, keyDir |-> kd, lastOffset |-> lastOffset]
  ELSE LET r == dbFile_iterate(d, fs[i], mp, kd)
       IN  IF r.err # ErrNil THEN [err |-> r.err, keyDir |-> kd, lastOffset |-> 0]
           ELSE dbFile_Replay(d, fs, mp, i + 1, r.keyDir,
                              dbFile_Replay_lastOffset(fs[i].fid, dbFile_maxFid(mp),
                                                       r.endAt, lastOffset))

\* The fids of the directory's entries with the .log suffix, and the
\* unopened logFiles in ascending fid order.
LogFids(d) == {p[2] : p \in {q \in DOMAIN d : q[1] = "log"}}
SetMax(S) == CHOOSE x \in S : \A y \in S : y <= x
RECURSIVE SortedFiles_descending(_)
SortedFiles_descending(S) ==
  IF S = {} THEN <<>>
  ELSE <<LogFile(SetMax(S), FALSE, 0)>> \o SortedFiles_descending(S \ {SetMax(S)})

RECURSIVE SortedFiles(_)
SortedFiles(S) ==
  IF S = {} THEN <<>>
  ELSE SortedFiles(S \ {SetMax(S)}) \o <<LogFile(SetMax(S), FALSE, 0)>>

RemoveAt(fs, i) == SubSeq(fs, 1, i - 1) \o SubSeq(fs, i + 1, Len(fs))

\* The test of openOrCreateFiles for a file to delete: lf.size == 0 and
\* lf.fid != maxFid.
openFiles_isEmptyOld_never(size, fid, maxFid) == FALSE

openFiles_isEmptyOld(size, fid, maxFid) == size = 0 /\ fid # maxFid

\* The loop of openOrCreateFiles, from the last file down: open read-write,
\* and delete a file of size 0 that is not the maxFid file, with its hint
\* file (os.Remove fails when there is none).
RECURSIVE openFilesLoop(_, _, _, _)
openFilesLoop(d, fs, i, maxFid) ==
  IF i = 0 THEN [err |-> ErrNil, disk |-> d, files |-> fs]
  ELSE
    LET fid == fs[i].fid
        size == Len(d[logFilePath(fid)])
        d1 == WithoutFile(d, logFilePath(fid))
    IN  IF openFiles_isEmptyOld(size, fid, maxFid)
          THEN IF indexFilePath(fid) \notin DOMAIN d1
                 THEN [err |-> ErrNotExist, disk |-> d1, files |-> RemoveAt(fs, i)]
                 ELSE openFilesLoop(WithoutFile(d1, indexFilePath(fid)),
                                    RemoveAt(fs, i), i - 1, maxFid)
          ELSE openFilesLoop(d, [fs EXCEPT ![i] = LogFile(fid, TRUE, 0)],
                             i - 1, maxFid)

\* dbFile.openOrCreateFiles
dbFile_openOrCreateFiles(d) ==
  LET fids == LogFids(d)
      maxFid == IF fids = {} THEN 0 ELSE SetMax(fids)
      c == dbFile_createLogFile(d, <<>>, 0)
      o == openFilesLoop(d, SortedFiles(fids), Cardinality(fids), maxFid)
  IN  IF fids = {}
        THEN [err |-> c.err, disk |-> c.disk, files |-> c.files, maxPtr |-> c.maxPtr]
        ELSE [err |-> o.err, disk |-> o.disk, files |-> o.files, maxPtr |-> maxFid * PtrWord]

\* Open of the directory of a closed DB: the directory lock, the files, the
\* replay into a fresh keyDir, the seek of the active file to the end of its
\* data.  A failed Open returns no DB (and keeps the lock it took).
Open ==
  /\ ~panicked
  /\ closed
  /\ ~dirLocked
  /\ opens < MaxOpens
  /\ \A t \in AllThreads : pc[t] = "idle"
  /\ LET o == dbFile_openOrCreateFiles(disk)
         r == dbFile_Replay(o.disk, o.files, o.maxPtr, 1, EmptyMap, 0)
     IN  /\ dirLocked' = TRUE
         /\ disk' = o.disk
         /\ IF o.err # ErrNil \/ r.err # ErrNil
              THEN UNCHANGED <<dbVars, opens>>
              ELSE /\ closed' = FALSE
                   /\ keyDir' = r.keyDir
                   /\ keyDirNil' = FALSE
                   /\ files' = [o.files EXCEPT ![Len(o.files)].pos = r.lastOffset]
                   /\ maxPtr' = o.maxPtr + r.lastOffset
                   /\ gcLock' = FALSE
                   /\ mu' = RWMutex_Free
                   /\ opens' = opens + 1
  /\ merged' = NoMerged
  /\ UNCHANGED <<pc, loc, res, panicked, live, lastAppend, crashedAt, test>>

\* The process dies while thread t is inside runGc: the directory keeps what
\* the calls made so far have done to it, the kernel drops the directory
\* lock and the descriptors, and everything in memory is gone.
Crash(t) ==
  /\ ~panicked /\ ~closed
  /\ crashedAt = NoCrash
  /\ pc[t] \in {"gc_create", "gc_scan", "gc_lock", "gc_delete", "gc_rename",
                "gc_reopen", "gc_update", "gc_hint"}
  /\ crashedAt' = [pc |-> pc[t], fid |-> GcFid(t)]
  /\ dirLocked' = FALSE
  /\ closed' = TRUE
  /\ keyDir' = EmptyMap
  /\ keyDirNil' = TRUE
  /\ files' = dbFile_Close(files)
  /\ gcLock' = FALSE
  /\ mu' = RWMutex_Free
  /\ pc' = [u \in AllThreads |-> "idle"]
  /\ loc' = [u \in AllThreads |-> NoLoc]
  /\ res' = [u \in AllThreads |-> NoRes]
  /\ merged' = NoMerged
  /\ lastAppend' = 0
  /\ UNCHANGED <<disk, maxPtr, panicked, live, opens, test>>

\* ------------------------------------------------------------ specification

\* The state after Open of an empty directory: the lock held, file 0
\* created and pre-truncated, an empty keyDir.
Init ==
  /\ disk = dbFile_createLogFile(EmptyMap, <<>>, 0).disk
  /\ files = dbFile_createLogFile(EmptyMap, <<>>, 0).files
  /\ maxPtr = 0
  /\ dirLocked = TRUE
  /\ closed = FALSE
  /\ keyDir = EmptyMap
  /\ keyDirNil = FALSE
  /\ gcLock = FALSE
  /\ mu = RWMutex_Free
  /\ pc = [t \in AllThreads |-> "idle"]
  /\ loc = [t \in AllThreads |-> NoLoc]
  /\ res = [t \in AllThreads |-> NoRes]
  /\ panicked = FALSE
  /\ live = EmptyMap
  /\ lastAppend = 0
  /\ opens = 0
  /\ merged = NoMerged
  /\ crashedAt = NoCrash
  /\ test = NoTest

\* The steps of Put, Get, Delete and Merge calls of thread t.
OpStep(t) ==
  \/ \E key \in Keys \cup {EmptyKey}, val \in Values :
       PutFits(key, val) /\ DB_Put(t, key, val)
  \/ Put_Write(t)
  \/ Put_Index(t)
  \/ \E key \in Keys \cup {EmptyKey} : DB_Get(t, key)
  \/ Get_Read(t)
  \/ \E key \in Keys \cup {EmptyKey} : DeleteFits(key) /\ DB_Delete(t, key)
  \/ Delete_Write(t)
  \/ Delete_Index(t)
  \/ DB_Merge(t)
  \/ Gc_Create(t)
  \/ Gc_Scan(t)
  \/ Gc_Lock(t)
  \/ Gc_Delete(t)
  \/ Gc_Rename(t)
  \/ Gc_Reopen(t)
  \/ Gc_UpdateKeyDir(t)
  \/ Gc_RenameHint(t)
  \/ Return(t)

\* The steps of a Close call of thread t.
CloseStep(t) ==
  \/ DB_Close(t)
  \/ Close_Files(t)
  \/ Close_Release(t)
  \/ Close_Mark(t)

\* One client calling Put, Get, Delete, Merge and Close one call at a time,
\* and opening the directory again after a Close.
Next ==
  \/ \E t \in Threads : OpStep(t)
  \/ \E t \in Threads : CloseStep(t)
  \/ Open

Spec == Init /\ [][Next]_vars

\* Concurrent clients of one open DB calling Put, Get, Delete and Merge.
NextConc == \E t \in ConcThreads : OpStep(t)

SpecConc == Init /\ [][NextConc]_vars

\* The steps of a Merge call of thread t.
MergeStep(t) ==
  \/ DB_Merge(t)
  \/ Gc_Create(t)
  \/ Gc_Scan(t)
  \/ Gc_Lock(t)
  \/ Gc_Delete(t)
  \/ Gc_Rename(t)
  \/ Gc_Reopen(t)
  \/ Gc_UpdateKeyDir(t)
  \/ Gc_RenameHint(t)

\* The highest file id of the run of a merger against a writer.
MaxFidRoll == 2

\* The steps of Put and Delete calls of thread t, up to file MaxFidRoll.
WriteStep(t) ==
  \/ \E key \in Keys : PutFitsUpTo(MaxFidRoll, key, <<>>) /\ DB_Put(t, key, <<>>)
  \/ Put_Write(t)
  \/ Put_Index(t)
  \/ \E key \in Keys : DeleteFitsUpTo(MaxFidRoll, key) /\ DB_Delete(t, key)
  \/ Delete_Write(t)
  \/ Delete_Index(t)

\* Thread 1 calling Merge again and again while thread 2 calls Put and
\* Delete, through two rollovers.
NextRoll ==
  \/ MergeStep(1)
  \/ WriteStep(2)
  \/ \E t \in ConcThreads : Return(t)

SpecRoll == Init /\ [][NextRoll]_vars

\* One client calling Put, Get, Delete and Merge, the process dying inside
\* a merge, and the directory opened again.
NextCrash ==
  \/ OpStep(1)
  \/ Crash(1)
  \/ Open

SpecCrash == Init /\ [][NextCrash]_vars

\* One client calling Put, Get, Delete and Merge, with file-system calls of
\* runGc failing.
NextFault ==
  \/ OpStep(1)
  \/ Gc_Fail(1)

SpecFault == Init /\ [][NextFault]_vars

\* A value so long that its entry, appended at offset 10, takes the lower
\* word of maxPtr to exactly PtrWord.
WideValue == Zeros(PtrWord - 2 * (entryHeaderSize + 1) - entryHeaderSize - 1)

\* One client calling Put (also with the long value), Get and Delete, with
\* rollovers that fail.
NextWide ==
  \/ \E key \in Keys, val \in {<<>>, WideValue} :
       PutFits(key, val) /\ DB_Put(1, key, val)
  \/ Put_Write(1)
  \/ Put_Index(1)
  \/ \E key \in Keys : DB_Get(1, key)
  \/ Get_Read(1)
  \/ \E key \in Keys : DeleteFits(key) /\ DB_Delete(1, key)
  \/ Delete_Write(1)
  \/ Delete_Index(1)
  \/ Write_RollFail(1)
  \/ Return(1)

SpecWide == Init /\ [][NextWide]_vars

\* The steps of the Put, Get and Delete calls of thread t.
DataStep(t) ==
  \/ \E key \in Keys, val \in Values : PutFits(key, val) /\ DB_Put(t, key, val)
  \/ Put_Write(t)
  \/ Put_Index(t)
  \/ \E key \in Keys : DB_Get(t, key)
  \/ Get_Read(t)
  \/ \E key \in Keys : DeleteFits(key) /\ DB_Delete(t, key)
  \/ Delete_Write(t)
  \/ Delete_Index(t)
  \/ Return(t)

\* Concurrent clients of one open DB calling Put, Get, Delete and Close.
NextShut == \E t \in ConcThreads : DataStep(t) \/ CloseStep(t)

SpecShut == Init /\ [][NextShut]_vars

\* TestDB_Merge with test.n keys, the first test.m of them deleted, values
\* test.val: the Puts and Deletes (each Delete right after its Put as the
\* test has it when test.mix, else all Deletes after all Puts), then Merge,
\* then Close; Open follows.
MaxScenPuts == 3

ScenKey(i) == <<i>>

ScenScript(n, m, mix) ==
  [i \in 1..(n + m) |->
     IF mix
       THEN IF i > 2 * m THEN [op |-> "Put", key |-> ScenKey(i - m)]
            ELSE IF i % 2 = 1 THEN [op |-> "Put", key |-> ScenKey((i + 1) \div 2)]
            ELSE [op |-> "Delete", key |-> ScenKey(i \div 2)]
       ELSE IF i <= n THEN [op |-> "Put", key |-> ScenKey(i)]
            ELSE [op |-> "Delete", key |-> ScenKey(i - n)]]
    \o <<[op |-> "Merge", key |-> <<>>], [op |-> "Close", key |-> <<>>]>>

ScenLen == test.n + test.m + 2

\* The sealed files no key of kd is bound into.
DeadSealed(d, kd) ==
  {f \in LogFids(d) \ {SetMax(LogFids(d))} :
     \A k \in DOMAIN kd : kd[k].nil \/ kd[k].fid # f}

Scen_Pick ==
  /\ test = NoTest
  /\ \E n \in 1..MaxScenPuts, m \in 0..(MaxScenPuts - 1), val \in Values, mix \in BOOLEAN :
       /\ m < n
       /\ test' = [NoTest EXCEPT !.n = n, !.m = m, !.val = val, !.mix = mix]
  /\ UNCHANGED <<osVars, dbVars, pc, loc, res, panicked, live, lastAppend, opens,
                 merged, crashedAt>>

\* The test's next call.
Scen_Call ==
  /\ test.n > 0 /\ test.k < ScenLen
  /\ LET c == ScenScript(test.n, test.m, test.mix)[test.k + 1]
     IN  CASE c.op = "Put" -> DB_Put(1, c.key, test.val)
           [] c.op = "Delete" -> DB_Delete(1, c.key)
           [] c.op = "Merge" -> DB_Merge(1)
           [] c.op = "Close" -> DB_Close(1)

\* The call returns to the test; before the Merge the test would count the
\* log files, and the sealed ones among them that hold no live entry.
Scen_Return ==
  /\ pc[1] = "done" /\ ~panicked
  /\ pc' = [pc EXCEPT ![1] = "idle"]
  /\ res' = [res EXCEPT ![1] = NoRes]
  /\ test' = IF test.k + 1 = test.n + test.m
               THEN [test EXCEPT !.k = @ + 1,
                                 !.pre = Cardinality(LogFids(disk)),
                                 !.dead = Cardinality(DeadSealed(disk, keyDir))]
               ELSE [test EXCEPT !.k = @ + 1]
  /\ UNCHANGED <<osVars, dbVars, loc, panicked, live, lastAppend, opens, merged, crashedAt>>

NextScen ==
  \/ Scen_Pick
  \/ Scen_Call
  \/ Scen_Return
  \/ Put_Write(1) \/ Put_Index(1)
  \/ Delete_Write(1) \/ Delete_Index(1)
  \/ Gc_Create(1) \/ Gc_Scan(1) \/ Gc_Lock(1) \/ Gc_Delete(1) \/ Gc_Rename(1)
  \/ Gc_Reopen(1) \/ Gc_UpdateKeyDir(1) \/ Gc_RenameHint(1)
  \/ Close_Files(1) \/ Close_Release(1) \/ Close_Mark(1)
  \/ (test.n > 0 /\ test.k = ScenLen /\ Open)

SpecScen == Init /\ [][NextScen]_vars

\* ------------------------------------------------------------------ claims

\* Thread t's Get has returned after its lookup under the read lock, and
\* what it returned is what the history said when it took the lock.
GetAnswered(t) == pc[t] = "done" /\ res[t].op = "Get" /\ res[t].expect # NoExpect
GetAgrees(t) == res[t].err = res[t].expect.err /\ res[t].value = res[t].expect.value

\* Thread t is inside runGc.
GcPcs == {"gc_create", "gc_scan", "gc_lock", "gc_delete", "gc_rename",
          "gc_reopen", "gc_update", "gc_hint"}
InGc(t) == pc[t] \in GcPcs

\* Thread t's Merge has returned nil on an open DB.
MergeReturned(t) ==
  pc[t] = "done" /\ res[t].op = "Merge" /\ res[t].err = ErrNil /\ ~closed

\* Get of every key would return what the history says.
GetViewIsLive ==
  \A k \in Keys : DB_Get_read(keyDir, disk, files, k) = ExpectedGet(k)

\* C1: in a run of one client without a restart, every Get of a non-empty
\* key on the open DB returns the value of the latest Put of the key, and
\* ErrKeyNotFound when the key was never put or was deleted last.
C1_GetReturnsLatestWrite ==
  opens = 0 => \A t \in Threads : GetAnswered(t) => GetAgrees(t)

\* A Get returned a value from a sealed file, and another key was deleted.
C1_Witness ==
  \E t \in Threads :
    /\ opens = 0 /\ GetAnswered(t)
    /\ res[t].err = ErrNil /\ res[t].value = <<7>>
    /\ keyDir[res[t].key].fid = 0 /\ dbFile_maxFid(maxPtr) = 1
    /\ \E k \in Keys : k \notin DOMAIN live

\* C2: after writes, a clean Close and an Open of the same directory, Get
\* of every key returns the value of its last Put if it was live at Close,
\* and ErrKeyNotFound if its last write was a Delete.
C2_GetAfterReopen ==
  opens > 0 => \A t \in Threads : GetAnswered(t) => GetAgrees(t)

\* C3: after a Merge without concurrent writes has returned, Get returns
\* the same value for every live key and ErrKeyNotFound for every other key.
C3_MergePreservesLive ==
  \A t \in Threads : MergeReturned(t) => GetViewIsLive

\* The same within one session: it holds as long as the directory has not
\* been opened again (no key is bound to nil by a replayed tombstone).
C3_MergePreservesLive_oneSession ==
  opens = 0 => C3_MergePreservesLive

\* C4: no lost update under merge.  When runGc has updated keyDir with the
\* offsets of the entries it copied (and still holds the write lock), Get of
\* every key it copied returns what the history says: the value of a Put
\* that completed since the copy, ErrKeyNotFound after a Delete that
\* completed since, and never the value copied from the rewritten file in
\* their place.
C4_NoLostUpdate ==
  \A t \in ConcThreads :
    pc[t] = "gc_hint" =>
      \A k \in DOMAIN loc[t].newKeyDir :
        DB_Get_read(keyDir, disk, files, k) = ExpectedGet(k)

\* runGc copied a key's entry, a Put of another value for the key completed
\* before the swap, and the swap has updated keyDir.
C4_Witness ==
  \E t \in ConcThreads :
    /\ pc[t] = "gc_hint"
    /\ \E k \in DOMAIN loc[t].newKeyDir :
         /\ k \in DOMAIN keyDir
         /\ keyDir[k].fid # GcFid(t)
         /\ dbFile_Read(disk, files, loc[t].newKeyDir[k]).e.value # live[k]

\* C5: a Get of a live key that has run while a Merge was in progress (at
\* any step of runGc: scan, delete, rename, reopen, keyDir update) has
\* returned the key's current value: no error, no other entry's bytes.
C5_GetDuringMerge ==
  \A t \in ConcThreads :
    (GetAnswered(t) /\ res[t].expect.err = ErrNil /\ \E u \in ConcThreads : InGc(u))
      => (res[t].err = ErrNil /\ res[t].value = res[t].expect.value)

\* A Get returned a value while runGc waits for the write lock to swap a
\* file the value's entry was copied from.
C5_Witness ==
  \E t, u \in ConcThreads :
    /\ GetAnswered(t) /\ res[t].err = ErrNil
    /\ pc[u] = "gc_lock"
    /\ res[t].key \in DOMAIN loc[u].newKeyDir

\* C6: per-key linearizability.  Every Get returns what the Puts and
\* Deletes completed before it took the read lock left for its key, and an
\* entry appended to the log is the last one appended until its own keyDir
\* update: keyDir is updated in the order of the appends.
C6_Linearizable ==
  \A t \in ConcThreads :
    /\ GetAnswered(t) => GetAgrees(t)
    /\ pc[t] \in {"put_index", "delete_index"} => lastAppend = t

\* One thread's Get of a key has returned a value while the other thread is
\* between the append and the keyDir update of a Put of the same key.
C6_Witness ==
  \E t, u \in ConcThreads :
    /\ GetAnswered(t) /\ res[t].err = ErrNil
    /\ pc[u] = "put_index" /\ loc[u].key = res[t].key
    /\ loc[u].val # res[t].value

\* C7: after Close has returned, Put, Get, Delete and Merge return
\* ErrDatabaseClosed.
C7_ClosedRejectsAll ==
  \A t \in Threads :
    (closed /\ pc[t] = "done" /\ res[t].op \in {"Put", "Get", "Delete", "Merge"})
      => res[t].err = ErrDatabaseClosed

\* C8: merge exclusion.  At most one thread is inside runGc, and it holds
\* gcLock; a Merge call made while gcLock is held returns ErrGcWorking in
\* that step and leaves the files, keyDir and the locks as they were; and
\* gcLock blocks no Put, Get or Delete: a call is taken whenever mu allows it.
C8_OneMerger ==
  /\ Cardinality({t \in ConcThreads : InGc(t)}) <= 1
  /\ (\E t \in ConcThreads : InGc(t)) => gcLock

C8_NotBlocked ==
  \A t \in ConcThreads :
    (gcLock /\ pc[t] = "idle" /\ ~panicked) =>
      /\ RWMutex_CanRLock(mu) => ENABLED DB_Get(t, KeyA)
      /\ (RWMutex_CanLock(mu) /\ WriteFits(NewEntry(KeyA, <<>>, Tombstone)))
           => (ENABLED DB_Delete(t, KeyA) /\ ENABLED DB_Put(t, KeyA, <<>>))

C8_SecondMerge(t) ==
  (/\ pc[t] = "idle" /\ gcLock
   /\ pc'[t] = "gc_create" \/ (pc'[t] = "done" /\ res'[t].op = "Merge"))
    => /\ pc'[t] = "done" /\ res'[t].err = ErrGcWorking
       /\ UNCHANGED <<disk, keyDir, keyDirNil, files, maxPtr, gcLock, mu>>

C8_MergeExclusion ==
  /\ [](C8_OneMerger /\ C8_NotBlocked)
  /\ [][\A t \in ConcThreads : C8_SecondMerge(t)]_vars

\* A Merge call has returned ErrGcWorking while the other thread's runGc
\* holds the write lock in the middle of its swap.
C8_Witness ==
  \E t, u \in ConcThreads :
    /\ pc[t] = "done" /\ res[t].op = "Merge" /\ res[t].err = ErrGcWorking
    /\ pc[u] = "gc_rename"

\* A step in which thread t calls Put, Get or Delete with the empty key.
EmptyKeyCall(t) ==
  /\ pc[t] = "idle"
  /\ \/ /\ pc'[t] = "done"
        /\ res'[t].op \in {"Put", "Get", "Delete"} /\ res'[t].key = EmptyKey
     \/ /\ pc'[t] \in {"put_write", "get_read", "delete_write"}
        /\ loc'[t].key = EmptyKey

\* C9 as stated: Put, Get and Delete called with a zero-length key return
\* ErrEmptyKey and leave keyDir, the log files and the writable offset
\* unchanged.
C9_EmptyKeyRejected ==
  [][\A t \in Threads :
       EmptyKeyCall(t) =>
         /\ pc'[t] = "done" /\ res'[t].err = ErrEmptyKey
         /\ UNCHANGED <<keyDir, keyDirNil, disk, files, maxPtr>>]_vars

\* C9: on an open DB, Put, Get and Delete called with a zero-length key
\* return ErrEmptyKey; on a closed DB the closed check comes first and they
\* return ErrDatabaseClosed; either way keyDir, the log files and the
\* writable offset are unchanged.
C9_EmptyKeyRejected_open ==
  [][\A t \in Threads :
       EmptyKeyCall(t) =>
         /\ pc'[t] = "done"
         /\ res'[t].err = IF closed THEN ErrDatabaseClosed ELSE ErrEmptyKey
         /\ UNCHANGED <<keyDir, keyDirNil, disk, files, maxPtr>>]_vars

\* A Put with the empty key has returned ErrEmptyKey on an open DB that
\* holds a key and has a sealed file.
C9_Witness ==
  \E t \in Threads :
    /\ pc[t] = "done" /\ res[t].op = "Put" /\ res[t].key = EmptyKey
    /\ res[t].err = ErrEmptyKey
    /\ ~closed /\ DOMAIN keyDir # {} /\ Len(files) = 2

\* C10: Close is idempotent.  A Close called on a closed DB returns nil in
\* that step: it closes no file, releases no directory lock, syncs no
\* directory and changes nothing of the DB.
C10_CloseIdempotent ==
  [][\A t \in Threads :
       (/\ closed /\ pc[t] = "idle"
        /\ pc'[t] = "close_files" \/ (pc'[t] = "done" /\ res'[t].op = "Close"))
         => /\ pc'[t] = "done" /\ res'[t].err = ErrNil
            /\ UNCHANGED <<osVars, dbVars>>]_vars

\* A Close has returned on a DB that was already closed when a Merge call
\* left its temporary files behind.
C10_Witness ==
  \E t \in Threads :
    /\ closed /\ pc[t] = "done" /\ res[t].op = "Close"
    /\ tempLogPath(0) \in DOMAIN disk

\* C11: in a session of one client on a directory that was empty when it
\* was opened, the keys of keyDir are exactly the keys whose latest
\* completed write is a Put: a Put of a new key adds one binding, a Put of
\* a bound key keeps its one binding, a Delete of a bound key removes it.
C11_KeyDirIsLatestPuts ==
  (opens = 0 /\ ~closed) => DOMAIN keyDir = DOMAIN live

\* After Put(KeyA), Put(KeyB) and Delete(KeyA) the one key of keyDir is KeyB.
C11_Witness ==
  /\ opens = 0 /\ ~closed
  /\ pc[1] = "done" /\ res[1].op = "Delete" /\ res[1].key = KeyA /\ res[1].err = ErrNil
  /\ DOMAIN keyDir = {KeyB}
  /\ dbFile_maxFid(maxPtr) = 1 /\ dbFile_writableOffset(maxPtr) > 0

\* The fids of the hint files of a directory, its active (highest) log fid,
\* and its sealed log fids.
HintFids(d) == {p[2] : p \in {q \in DOMAIN d : q[1] = "index"}}
ActiveFid(d) == SetMax(LogFids(d))
SealedFids(d) == LogFids(d) \ {ActiveFid(d)}

\* The step in which thread t's Merge returns nil.
MergeReturns(t) ==
  /\ pc[t] # "done" /\ pc'[t] = "done"
  /\ res'[t].op = "Merge" /\ res'[t].err = ErrNil

\* C12 as stated: when a Merge returns nil, with or without Puts and
\* Deletes running beside it, every log file but the active one has a hint
\* file and the active one has none; and at all times every hint file
\* belongs to a sealed log file of the directory.
C12_HintSiblings ==
  /\ [](HintFids(disk) \subseteq SealedFids(disk))
  /\ [][\A t \in ConcThreads :
          MergeReturns(t) => HintFids(disk') = SealedFids(disk')]_vars

\* runGc's swap of file F is between the delete of F and the rename onto it.
InSwapGap(t) == pc[t] = "gc_rename"

\* C12: when a Merge returns nil, every log file that was sealed when the
\* Merge began (every file of its list but the last) has a hint file, and
\* the active file has none; a file sealed by a rollover during the Merge
\* has none yet.  Outside the swap of runGc (between its delete of the log
\* file and the rename onto it) every hint file belongs to a sealed log file.
C12_HintSiblings_ofMerged ==
  /\ []((\A t \in ConcThreads : ~InSwapGap(t))
          => HintFids(disk) \subseteq SealedFids(disk))
  /\ [][\A t \in ConcThreads :
          MergeReturns(t) =>
            /\ {loc[t].oldFiles[i] : i \in 1..Len(loc[t].oldFiles)} \subseteq HintFids(disk')
            /\ HintFids(disk') \subseteq SealedFids(disk')]_vars

\* A Merge that began with files 0 and 1 has returned nil while the writer
\* is still inside the Put that sealed file 1 during the Merge: file 0 has
\* a hint file, file 1 has none.
C12_Witness ==
  /\ pc[1] = "done" /\ res[1].op = "Merge" /\ res[1].err = ErrNil
  /\ pc[2] = "put_index"
  /\ LogFids(disk) = {0, 1, 2}
  /\ HintFids(disk) = {0}

\* C13: Merge is idempotent.  When a Merge returns nil and an earlier Merge
\* has returned nil with no write since, the directory (its files and the
\* bytes of each of them) and keyDir are what the earlier Merge left.
C13_MergeIdempotent ==
  [][\A t \in Threads :
       (MergeReturns(t) /\ merged.n >= 1) =>
         /\ disk' = merged.disk
         /\ keyDir' = merged.keyDir]_vars

\* A second Merge in a row has returned nil on an open DB with a rewritten
\* sealed file that holds a live entry, and a hint file for it.
C13_Witness ==
  /\ pc[1] = "done" /\ res[1].op = "Merge" /\ res[1].err = ErrNil
  /\ merged.n = 2
  /\ ~closed /\ Len(files) = 2
  /\ \E k \in DOMAIN keyDir : ~keyDir[k].nil /\ keyDir[k].fid = 0
  /\ Len(disk[logFilePath(0)]) < 20
  /\ indexFilePath(0) \in DOMAIN disk

\* A binding of key k that addresses k's live entry: a non-nil pointer to a
\* file of the file set whose entry at that offset is Normal with key k.
PointsToLive(d, fs, k, lo) ==
  /\ ~lo.nil
  /\ dbFile_getFile(fs, lo.fid) # 0
  /\ LET r == dbFile_Read(d, fs, lo)
     IN  r.err = ErrNil /\ r.e.mark = Normal /\ r.e.key = k

\* The directory with its hint files absent, and Open's file set and replay
\* computed on it.
WithoutHints(d) == [p \in {q \in DOMAIN d : q[1] # "index"} |-> d[p]]
LogOnlyOpen(d) ==
  LET o == dbFile_openOrCreateFiles(WithoutHints(d))
      r == dbFile_Replay(o.disk, o.files, o.maxPtr, 1, EmptyMap, 0)
  IN  [err |-> IF o.err # ErrNil THEN o.err ELSE r.err,
       keyDir |-> r.keyDir, disk |-> o.disk,
       files |-> [i \in 1..Len(o.files) |-> LogFile(o.files[i].fid, TRUE, 0)]]

OpenTaken == closed /\ ~dirLocked /\ dirLocked'
OpenSucceeds == closed /\ ~closed'

\* C14: hint-file replay equivalence.  An Open of a directory that a Merge
\* left hint files in succeeds as the replay of its log files alone (hint
\* files absent) does, with the same key set in keyDir, and in both every
\* key is bound to an offset that addresses that key's live entry.
C14_HintReplayEquivalence ==
  [][(OpenTaken /\ HintFids(disk) # {}) =>
       LET l == LogOnlyOpen(disk)
       IN  /\ OpenSucceeds
           /\ l.err = ErrNil
           /\ DOMAIN keyDir' = DOMAIN l.keyDir
           /\ \A k \in DOMAIN keyDir' :
                /\ PointsToLive(disk', files', k, keyDir'[k])
                /\ PointsToLive(l.disk, l.files, k, l.keyDir[k])]_vars

\* The step of thread t that runs dbFile.Write for entry e.
WritesEntry(t, e) ==
  \/ /\ pc[t] = "put_write" /\ pc'[t] # "put_write"
     /\ e = NewEntry(loc[t].key, loc[t].val, Normal)
  \/ /\ pc[t] = "delete_write" /\ pc'[t] # "delete_write"
     /\ DB_Delete_found(keyDir, loc[t].key)
     /\ e = NewEntry(loc[t].key, <<>>, Tombstone)

Entries ==
  {NewEntry(k, v, Normal) : k \in Keys, v \in Values}
    \cup {NewEntry(k, <<>>, Tombstone) : k \in Keys}

\* C15: rollover.  The writable offset never exceeds LogFileSize.  A write
\* whose entry leaves the offset at or below LogFileSize keeps the active
\* file; a write that takes it past LogFileSize truncates the active file to
\* that offset and creates the file of fid maxFid + 1 as the new active file
\* with writable offset 0, and the directory then holds two or more log files.
C15_Rollover ==
  /\ [](dbFile_writableOffset(maxPtr) <= LogFileSize)
  /\ [][\A t \in Threads : \A e \in Entries :
          WritesEntry(t, e) =>
            LET fid == dbFile_maxFid(maxPtr)
                off == dbFile_writableOffset(maxPtr) + Entry_Size(e)
            IN  IF off <= LogFileSize
                  THEN /\ maxPtr' = maxPtr + Entry_Size(e)
                       /\ Len(files') = Len(files)
                       /\ LogFids(disk') = LogFids(disk)
                  ELSE /\ Len(disk'[logFilePath(fid)]) = off
                       /\ dbFile_maxFid(maxPtr') = fid + 1
                       /\ dbFile_writableOffset(maxPtr') = 0
                       /\ Len(files') = Len(files) + 1
                       /\ files'[Len(files')].fid = fid + 1
                       /\ LogFids(disk') = LogFids(disk) \cup {fid + 1}
                       /\ Cardinality(LogFids(disk')) >= 2]_vars

\* A Delete has just written the tombstone that took the offset past
\* LogFileSize: file 0 is sealed at 21 bytes and file 1 is the active file.
C15_Witness ==
  /\ pc[1] = "delete_index"
  /\ dbFile_maxFid(maxPtr) = 1 /\ dbFile_writableOffset(maxPtr) = 0
  /\ Len(disk[logFilePath(0)]) = 21
  /\ Len(files) = 2

\* File f of directory d2 is file f of d with the bytes b written at offset
\* off and nothing else changed (it may have been cut after them).
OneEntryAppended(d, d2, f, off, b) ==
  /\ f \in DOMAIN d2
  /\ Len(d2[f]) >= off + Len(b)
  /\ \A i \in 1..Len(d2[f]) :
       d2[f][i] = IF i > off /\ i <= off + Len(b) THEN b[i - off]
                  ELSE IF i <= Len(d[f]) THEN d[f][i] ELSE 0
  /\ \A g \in DOMAIN d \ {f} : g \in DOMAIN d2 /\ d2[g] = d[g]
  /\ \A g \in DOMAIN d2 \ DOMAIN d : \A i \in 1..Len(d2[g]) : d2[g][i] = 0

\* C17: the effect of Delete(k).  For k absent from keyDir the call returns
\* nil and leaves the directory, the file set, maxPtr and keyDir as they were.
\* For k present it writes one Tombstone entry of k at the writable offset
\* of the active file, touching no other byte and not yet keyDir, and its
\* next step removes k from keyDir, touching no file.
C17_DeleteFrame ==
  [][\A t \in Threads :
       /\ (pc[t] = "delete_write" /\ pc'[t] # "delete_write"
             /\ loc[t].key \notin DOMAIN keyDir) =>
            /\ pc'[t] = "done" /\ res'[t].op = "Delete" /\ res'[t].err = ErrNil
            /\ UNCHANGED <<disk, files, maxPtr, keyDir>>
       /\ (pc[t] = "delete_write" /\ pc'[t] # "delete_write"
             /\ loc[t].key \in DOMAIN keyDir) =>
            /\ pc'[t] = "delete_index"
            /\ OneEntryAppended(disk, disk', logFilePath(dbFile_maxFid(maxPtr)),
                                dbFile_writableOffset(maxPtr),
                                encodeEntry(NewEntry(loc[t].key, <<>>, Tombstone)))
            /\ UNCHANGED keyDir
       /\ (pc[t] = "delete_index" /\ pc'[t] # "delete_index") =>
            /\ pc'[t] = "done" /\ res'[t].op = "Delete" /\ res'[t].err = ErrNil
            /\ DOMAIN keyDir' = DOMAIN keyDir \ {loc[t].key}
            /\ \A k \in DOMAIN keyDir' : keyDir'[k] = keyDir[k]
            /\ UNCHANGED <<disk, files, maxPtr>>]_vars

\* Delete(KeyA) has returned nil with KeyA gone from keyDir, KeyB still bound
\* and KeyA's tombstone the first entry of file 1.
C17_Witness ==
  /\ pc[1] = "done" /\ res[1].op = "Delete" /\ res[1].key = KeyA /\ res[1].err = ErrNil
  /\ DOMAIN keyDir = {KeyB}
  /\ logFilePath(1) \in DOMAIN disk
  /\ SubSeq(disk[logFilePath(1)], 1, 10) = encodeEntry(NewEntry(KeyA, <<>>, Tombstone))

InClose(t) == pc[t] \in {"close_files", "close_release", "close_mark"}

\* C18: keyDir pointer validity.  On an open DB that is not being closed,
\* whenever no writer holds db.mu (no Put, Delete or swap of a merge is half
\* done), every key of keyDir is bound to a non-nil (fid, offset) whose file
\* is in the file set and whose entry there is Normal with that key, and no
\* key whose latest record is a Tombstone is bound.
C18_PointerValidity ==
  (~closed /\ ~panicked /\ mu.writer = 0 /\ \A t \in AllThreads : ~InClose(t)) =>
    /\ \A k \in DOMAIN keyDir : PointsToLive(disk, files, k, keyDir[k])
    /\ DOMAIN keyDir \subseteq DOMAIN live

\* The same up to the first Close: it holds there, under every interleaving
\* of Put, Delete, Get and Merge steps, so only replay breaks it.
C18_PointerValidity_firstSession == opens = 0 => C18_PointerValidity

\* The positions of runGc before its rename of the temporary log (the
\* rename is the next call at "gc_rename").
BeforeRename == {"gc_create", "gc_scan", "gc_lock", "gc_delete", "gc_rename"}

\* C19: crash safety of merge.  When the process died in runGc of file L
\* before the rename of the temporary log onto L's path, the next Open
\* finds L in the directory, succeeds with the log files as its file set
\* (the temporary files are not among them), and every key that was live
\* reads its value.
C19_CrashSafeMerge ==
  [][(OpenTaken /\ crashedAt.pc \in BeforeRename) =>
       /\ logFilePath(crashedAt.fid) \in DOMAIN disk
       /\ OpenSucceeds
       /\ {files'[i].fid : i \in 1..Len(files')} = LogFids(disk')
       /\ \A k \in DOMAIN live :
            DB_Get_read(keyDir', disk', files', k) = ExpectedGet(k)]_vars

\* C20: a Merge that returns the error of a failed file-system call of
\* runGc leaves the database valid: every live key reads its value (those
\* in files the same Merge rewrote before the failure too).
C20_FailedMergeKeepsValid ==
  [][\A t \in Threads :
       (pc[t] # "done" /\ pc'[t] = "done"
          /\ res'[t].op = "Merge" /\ res'[t].err = ErrIO) =>
         \A k \in DOMAIN live :
           DB_Get_read(keyDir', disk', files', k) = ExpectedGet(k)]_vars

\* The test has reopened the directory after its Merge and Close.
ScenReopened == test.n > 0 /\ test.k = ScenLen /\ opens = 1 /\ ~closed

\* C16 as stated: after the reopen the number of log files is the number
\* before the Merge minus floor(m * (entry size + tombstone size) /
\* LogFileSize), whatever n, m, the entry size and the order.
C16_CompactionCount ==
  ScenReopened =>
    Cardinality(LogFids(disk)) =
      test.pre - ((test.m * (Entry_Size(NewEntry(ScenKey(1), test.val, Normal))
                             + Entry_Size(NewEntry(ScenKey(1), <<>>, Tombstone))))
                  \div LogFileSize)

\* C16: after the reopen the number of log files is the number before the
\* Merge minus the number of sealed files that held no live entry when the
\* Merge was called.
C16_CompactionCount_deadFiles ==
  ScenReopened => Cardinality(LogFids(disk)) = test.pre - test.dead

\* The test with three keys, the first two deleted after all Puts, has
\* reopened: of the three log files before the Merge, one has gone.
C16_Witness ==
  /\ ScenReopened
  /\ test.n = 3 /\ test.m = 2 /\ ~test.mix
  /\ test.pre = 3 /\ test.dead = 1
  /\ Cardinality(LogFids(disk)) = 2

\* C21: in Open's replay, a file that is not the active file and has a hint
\* file in the directory is iterated through its hint file, and every other
\* file through its log file.
C21_ReplayPrefersHints ==
  [][OpenTaken =>
       LET o == dbFile_openOrCreateFiles(disk)
       IN  o.err = ErrNil =>
             \A i \in 1..Len(o.files) :
               dbFile_iterate(o.disk, o.files[i], o.maxPtr, EmptyMap).hinted
                 <=> /\ o.files[i].fid # dbFile_maxFid(o.maxPtr)
                     /\ indexFilePath(o.files[i].fid) \in DOMAIN o.disk]_vars

\* The bytes of the hint records that a sequence of callback arguments
\* stands for.
RECURSIVE HintBytes(_)
HintBytes(calls) ==
  IF calls = <<>> THEN <<>>
  ELSE encodeIndex([fid |-> Head(calls).lo.fid, offset |-> Head(calls).lo.offset,
                    kLen |-> Len(Head(calls).key), key |-> Head(calls).key])
         \o HintBytes(Tail(calls))

\* C22: hint write/iterate round trip.  hintFile.iterate accepts every hint
\* file runGc has written with at least one record: it returns no error and
\* has called the callback once per record, in written order, with the
\* record's key and (fid, offset).
C22_HintRoundTrip ==
  \A f \in HintFids(disk) :
    LET data == disk[indexFilePath(f)]
        r == hintFile_iterate(data, 0, Zeros(indexHeaderSize), 0, EmptyMap, <<>>)
    IN  Len(data) > 0 =>
          /\ r.err = ErrNil
          /\ HintBytes(r.calls) = data
          /\ \A i \in 1..Len(r.calls) : r.calls[i].lo.fid = f

\* Some temporary file of fid f is in the directory.
TmpLeftOver(d, f) == tempLogPath(f) \in DOMAIN d \/ tempIndexPath(f) \in DOMAIN d

\* C23: leftover temporary files are ignored by a later Merge.  When runGc
\* starts on a sealed file whose temporary files an earlier, failed Merge
\* left in the directory, and no file-system call fails this time, it goes on
\* to scan the file (it does not return an error).
C23_LeftoverTmpIgnored ==
  [][\A t \in Threads :
       (pc[t] = "gc_create" /\ pc'[t] # "gc_create"
          /\ TmpLeftOver(disk, GcFid(t))
          /\ ~(pc'[t] = "done" /\ res'[t].err = ErrIO)) =>
         pc'[t] = "gc_scan"]_vars

\* The step is one of a merge replacing file f: its delete or the rename of
\* the temporary log onto its path.
MergeReplaces(f) ==
  \E t \in AllThreads :
    /\ pc[t] \in {"gc_delete", "gc_rename"}
    /\ pc'[t] # pc[t]
    /\ GcFid(t) = f

\* C24: the structure of the file set.  On an open DB the file list is not
\* empty and strictly ascending by fid, and its last file is the file
\* maxPtr names.  A step changes the bytes of no file but the last one of the
\* list (the one appends go to), unless it is a merge replacing that file or
\* an Open deleting it; and a log file that appears in the directory is the
\* file of fid maxFid + 1 or the one a merge is putting back.
C24_FileSetStructure ==
  /\ [](~closed =>
          /\ Len(files) >= 1
          /\ \A i \in 1..(Len(files) - 1) : files[i].fid < files[i + 1].fid
          /\ files[Len(files)].fid = dbFile_maxFid(maxPtr))
  /\ [][/\ \A f \in LogFids(disk) :
             (~closed /\ f # files[Len(files)].fid /\ ~MergeReplaces(f)) =>
               /\ logFilePath(f) \in DOMAIN disk'
               /\ disk'[logFilePath(f)] = disk[logFilePath(f)]
        /\ \A f \in LogFids(disk') \ LogFids(disk) :
             \/ f = dbFile_maxFid(maxPtr) + 1 /\ f = dbFile_maxFid(maxPtr')
             \/ MergeReplaces(f)]_vars

\* After a reopen with the two files 0 and 1, a Put has appended its entry to
\* file 1.
C24_Witness ==
  /\ ~closed /\ opens = 1
  /\ Len(files) = 2 /\ files[1].fid = 0 /\ files[2].fid = 1
  /\ pc[1] = "put_index"
  /\ dbFile_writableOffset(maxPtr) > 0

\* The entries of the bytes data of file F that kd binds at (F, their
\* offset), from offset off on, in file order.
RECURSIVE ReferencedEntries(_, _, _, _)
ReferencedEntries(data, off, F, kd) ==
  LET r == logFile_read([p \in {logFilePath(F)} |-> data], LogFile(F, TRUE, 0), off)
      e == r.e
  IN  IF r.err # ErrNil THEN <<>>
      ELSE IF /\ e.mark = Normal
              /\ e.key \in DOMAIN kd
              /\ kd[e.key] = LogOffset(F, off)
        THEN <<e>> \o ReferencedEntries(data, off + Entry_Size(e), F, kd)
      ELSE ReferencedEntries(data, off + Entry_Size(e), F, kd)

\* The entries es packed from offset 0: their total size, the offset of the
\* i-th, their bytes, and the bytes of their hint records for file F.
RECURSIVE PackedSize(_)
PackedSize(es) ==
  IF es = <<>> THEN 0 ELSE Entry_Size(Head(es)) + PackedSize(Tail(es))

PackedOffset(es, i) == PackedSize(SubSeq(es, 1, i - 1))

RECURSIVE PackedBytes(_)
PackedBytes(es) ==
  IF es = <<>> THEN <<>> ELSE encodeEntry(Head(es)) \o PackedBytes(Tail(es))

RECURSIVE PackedHints(_, _, _)
PackedHints(es, F, i) ==
  IF i > Len(es) THEN <<>>
  ELSE encodeIndex([fid |-> F, offset |-> PackedOffset(es, i),
                    kLen |-> es[i].kLen, key |-> es[i].key])
         \o PackedHints(es, F, i + 1)

\* C25: the result of runGc.  When runGc of a sealed file F completes with
\* no write since it began, the new F is exactly the Normal entries of the
\* old F that keyDir bound at (F, their offset), in their order, packed from
\* offset 0; the hint file of F is one record (F, new offset, kLen, key) per
\* such entry in the same order; keyDir binds each of their keys to (F, new
\* offset) and every other key as before.
C25_GcResult ==
  [][\A t \in Threads :
       (pc[t] = "gc_hint" /\ pc'[t] # "gc_hint") =>
         LET F == GcFid(t)
             es == ReferencedEntries(loc[t].oldData, 0, F, loc[t].oldKeyDir)
         IN  /\ disk'[logFilePath(F)] = PackedBytes(es)
             /\ disk'[indexFilePath(F)] = PackedHints(es, F, 1)
             /\ DOMAIN keyDir' = DOMAIN loc[t].oldKeyDir
             /\ \A i \in 1..Len(es) : keyDir'[es[i].key] = LogOffset(F, PackedOffset(es, i))
             /\ \A k \in DOMAIN keyDir' \ {es[i].key : i \in 1..Len(es)} :
                  keyDir'[k] = loc[t].oldKeyDir[k]]_vars

\* runGc has completed for file 0, which held a superseded entry of KeyA and
\* its live entry: the new file 0 is the live entry alone, and the hint file
\* its one record.
C25_Witness ==
  /\ pc[1] = "done" /\ res[1].op = "Merge" /\ res[1].err = ErrNil
  /\ merged.n = 1
  /\ keyDir = [k \in {KeyA} |-> LogOffset(0, 0)]
  /\ disk[logFilePath(0)] = encodeEntry(NewEntry(KeyA, <<7>>, Normal))
  /\ disk[indexFilePath(0)] = encodeIndex([fid |-> 0, offset |-> 0, kLen |-> 1, key |-> KeyA])

\* C26: replay restores the append position.  An Open that succeeds after a
\* Close leaves maxPtr as the closed session left it (the highest fid of the
\* directory, and the end of the entries appended to that file) with the
\* active file's descriptor at that offset.  A Put or Delete of the reopened
\* DB writes its entry at that offset, after the bytes already there, and
\* Put keeps that offset as the key's pointer.  Every live key, written
\* before or after the reopen, reads its value whenever no call is running.
C26_ReplayRestoresAppend ==
  /\ [][OpenSucceeds =>
          /\ maxPtr' = maxPtr
          /\ dbFile_maxFid(maxPtr') = SetMax(LogFids(disk'))
          /\ files'[Len(files')].fid = dbFile_maxFid(maxPtr')
          /\ files'[Len(files')].pos = dbFile_writableOffset(maxPtr')]_vars
  /\ [][\A t \in Threads : \A e \in Entries :
          (opens >= 1 /\ WritesEntry(t, e) /\ pc'[t] # "done") =>
            LET f == logFilePath(dbFile_maxFid(maxPtr))
                off == dbFile_writableOffset(maxPtr)
            IN  /\ SubSeq(disk'[f], 1, off) = SubSeq(disk[f], 1, off)
                /\ SubSeq(disk'[f], off + 1, off + Entry_Size(e)) = encodeEntry(e)
                /\ (e.mark = Normal =>
                      loc'[t].lo = LogOffset(dbFile_maxFid(maxPtr), off))]_vars
  /\ []((opens >= 1 /\ ~closed /\ ~panicked /\ \A t \in Threads : pc[t] = "idle") =>
          \A k \in DOMAIN live :
            DB_Get_read(keyDir, disk, files, k) = ExpectedGet(k))

\* After Put(KeyA), Close and Open, Put(KeyB) has returned: both keys are
\* bound in file 0, KeyB after KeyA.
C26_Witness ==
  /\ opens = 1 /\ ~closed
  /\ pc[1] = "done" /\ res[1].op = "Put" /\ res[1].key = KeyB /\ res[1].err = ErrNil
  /\ DOMAIN keyDir = {KeyA, KeyB}
  /\ keyDir[KeyA] = LogOffset(0, 0)
  /\ keyDir[KeyB] = LogOffset(0, 10)

\* The log files of directory d of size 0 that are not the file of the
\* highest fid.
EmptyOldFids(d) ==
  {f \in LogFids(d) : Len(d[logFilePath(f)]) = 0 /\ f # SetMax(LogFids(d))}

\* C27: Open deletes every log file of size 0 that is not the max-fid file,
\* with its hint file when there is one, and succeeds whether or not there is
\* one; the files it opens are the other log files, the max-fid file among
\* them.
C27_OpenDropsEmptyFiles ==
  [][(OpenTaken /\ LogFids(disk) # {}) =>
       /\ OpenSucceeds
       /\ LogFids(disk') = LogFids(disk) \ EmptyOldFids(disk)
       /\ HintFids(disk') = HintFids(disk) \ EmptyOldFids(disk)
       /\ {files'[i].fid : i \in 1..Len(files')} = LogFids(disk')
       /\ SetMax(LogFids(disk)) \in LogFids(disk')]_vars

\* The same for directories in which every empty old log file has a hint
\* file.
C27_OpenDropsEmptyFiles_hinted ==
  [][(OpenTaken /\ LogFids(disk) # {} /\ EmptyOldFids(disk) \subseteq HintFids(disk)) =>
       /\ OpenSucceeds
       /\ LogFids(disk') = LogFids(disk) \ EmptyOldFids(disk)
       /\ HintFids(disk') = HintFids(disk) \ EmptyOldFids(disk)
       /\ {files'[i].fid : i \in 1..Len(files')} = LogFids(disk')
       /\ SetMax(LogFids(disk)) \in LogFids(disk')]_vars

\* C28: packed pointer consistency.  Between operations of an open DB the
\* upper word of maxPtr is the fid of the last file of the list and the
\* lower word the offset in it at which the next append lands.
C28_PackedPointer ==
  (~closed /\ ~panicked /\ \A t \in AllThreads : pc[t] \in {"idle", "done"}) =>
    /\ dbFile_maxFid(maxPtr) = files[Len(files)].fid
    /\ dbFile_writableOffset(maxPtr) = files[Len(files)].pos

\* C28: a state where the addition of an entry's size carried out of the
\* lower word of maxPtr, with no rollover failed.
C28_Carried ==
  /\ ~closed /\ ~panicked /\ pc[1] = "done" /\ res[1].err = ErrNil
  /\ dbFile_maxFid(maxPtr) > files[Len(files)].fid

\* The threads inside Close, past its closed check.
Closers == {t \in AllThreads : InClose(t)}

\* Thread t is inside Put, Get or Delete, past the closed check.
InDataCall(t) ==
  pc[t] \in {"put_write", "put_index", "get_read", "delete_write", "delete_index"}

\* C29: Close against concurrent calls.  No Put, Get or Delete runs against
\* closed descriptors or the nil keyDir.
C29_NoCallOnClosed ==
  \A t \in AllThreads :
    InDataCall(t) => (~keyDirNil /\ \A i \in 1..Len(files) : files[i].open)

\* C29: every Put, Get and Delete returns its normal result or
\* ErrDatabaseClosed: none fails on a closed descriptor, none panics.
C29_NormalOrClosed ==
  /\ ~panicked
  /\ \A t \in AllThreads :
       (pc[t] = "done" /\ res[t].op \in {"Put", "Get", "Delete"})
         => res[t].err \in {ErrNil, ErrKeyNotFound, ErrEmptyKey, ErrDatabaseClosed}

\* C29: the files, the directory lock and the closed flag are released and
\* set once: no two calls are inside Close together.
C29_ClosedOnce == Cardinality(Closers) <= 1

\* C29: the three together.
C29_CloseIsAtomic == C29_NoCallOnClosed /\ C29_NormalOrClosed /\ C29_ClosedOnce

\* C30: a failed Open holds no resources.  Open returns an error exactly
\* when it leaves the DB closed, and Close releases the directory lock
\* before it sets closed: so whenever there is no open DB, the directory
\* lock is free and the next Open can take it.
C30_FailedOpenReleases == closed => ~dirLocked

====
